---- MODULE Spec2Model ----
(***************************************************************************)
(* Gym Buddy: the workout API (Next.js route handlers over Prisma).       *)
(* The model covers the persisted tables (workouts, exercises), the       *)
(* validation layer of src/lib/workout-validation.ts and the route        *)
(* handlers POST /workouts and PUT /workouts/{id} with the exercise       *)
(* reconciliation of handleExerciseUpdates.                               *)
(*                                                                         *)
(* JSON values are tagged records: undefined (an absent property), null,  *)
(* strings (sequences of one-character strings), numbers and NaN.         *)
(* Record ids (cuid) are non-empty strings; the n-th id a table assigns   *)
(* is the string of n letters, so ids are unique and never reused.        *)
(***************************************************************************)
EXTENDS Integers, Sequences, FiniteSets, TLC

\* ------------------------------------------------------------------ bounds
\* Workouts ever created, exercise rows ever inserted, entries in one
\* exercises array of a request.
MaxWorkouts == 2
MaxExercises == 3
MaxDirs == 2

\* ------------------------------------------------------------- JSON values
UNDEF == [t |-> "undefined"]
NULL == [t |-> "null"]
NaN == [t |-> "NaN"]
Str(s) == [t |-> "string", v |-> s]
Num(n) == [t |-> "number", v |-> n]

Arr(a) == [t |-> "array", v |-> a]

IsUndef(x) == x.t = "undefined"
IsNull(x) == x.t = "null"
IsStr(x) == x.t = "string"
IsArr(x) == x.t = "array"
IsNum(x) == x.t = "number"

\* JavaScript truthiness: undefined, null, NaN, 0 and "" are falsy.
Truthy(x) ==
  CASE x.t = "string" -> Len(x.v) > 0
    [] x.t = "number" -> x.v # 0
    [] OTHER -> FALSE

IsSpace(c) == c \in {" ", "\t"}
IsDigit(c) == c \in {"0", "1", "2", "3", "4", "5", "6", "7", "8", "9"}
DigitVal(c) ==
  CASE c = "0" -> 0 [] c = "1" -> 1 [] c = "2" -> 2 [] c = "3" -> 3
    [] c = "4" -> 4 [] c = "5" -> 5 [] c = "6" -> 6 [] c = "7" -> 7
    [] c = "8" -> 8 [] c = "9" -> 9

RECURSIVE TrimStart(_)
TrimStart(s) ==
  IF s # <<>> /\ IsSpace(Head(s)) THEN TrimStart(Tail(s)) ELSE s

RECURSIVE TrimEnd(_)
TrimEnd(s) ==
  IF s # <<>> /\ IsSpace(s[Len(s)]) THEN TrimEnd(SubSeq(s, 1, Len(s) - 1)) ELSE s

\* String.prototype.trim
Trim(s) == TrimEnd(TrimStart(s))

\* replace(/\s+/g, ' '): every maximal run of whitespace becomes one space
RECURSIVE CollapseSpaces(_)
CollapseSpaces(s) ==
  IF s = <<>> THEN <<>>
  ELSE IF IsSpace(Head(s)) THEN <<" ">> \o CollapseSpaces(TrimStart(Tail(s)))
  ELSE <<Head(s)>> \o CollapseSpaces(Tail(s))

sanitizeString(input) == CollapseSpaces(Trim(input))

LowerChar(c) ==
  CASE c = "C" -> "c" [] c = "S" -> "s" [] c = "F" -> "f" [] c = "O" -> "o"
    [] c = "A" -> "a" [] c = "B" -> "b" [] c = "T" -> "t"
    [] OTHER -> c

toLowerCase(s) == [i \in 1..Len(s) |-> LowerChar(s[i])]

RECURSIVE DecimalValue(_)
DecimalValue(s) ==
  IF s = <<>> THEN 0
  ELSE 10 * DecimalValue(SubSeq(s, 1, Len(s) - 1)) + DigitVal(s[Len(s)])

RECURSIVE LeadingDigits(_)
LeadingDigits(s) ==
  IF s # <<>> /\ IsDigit(Head(s)) THEN <<Head(s)>> \o LeadingDigits(Tail(s)) ELSE <<>>

\* Number(value) for the values a JSON body can hold (non-negative integers).
ToNumber(x) ==
  CASE x.t = "number" -> x
    [] x.t = "null" -> Num(0)
    [] x.t = "string" ->
         LET s == Trim(x.v) IN
           IF s = <<>> THEN Num(0)
           ELSE IF \A i \in 1..Len(s) : IsDigit(s[i]) THEN Num(DecimalValue(s))
           ELSE NaN
    [] OTHER -> NaN

\* parseInt(value): the argument is converted to a string first.
parseInt(x) ==
  CASE x.t = "number" -> x
    [] x.t = "string" ->
         LET d == LeadingDigits(TrimStart(x.v)) IN
           IF d = <<>> THEN NaN ELSE Num(DecimalValue(d))
    [] OTHER -> NaN

\* ------------------------------------------------ api-utils.ts validators
\* A validator returns TRUE when it reports an error. NoLimit stands for an
\* omitted minLength/maxLength/min/max argument.
NoLimit == -1

validateRequired(value) ==
  IsUndef(value) \/ IsNull(value) \/ (IsStr(value) /\ Len(value.v) = 0)

validateString(value, minLength, maxLength) ==
  \/ ~IsStr(value)
  \/ IsStr(value) /\ minLength # NoLimit /\ Len(value.v) < minLength
  \/ IsStr(value) /\ maxLength # NoLimit /\ Len(value.v) > maxLength

validateNumber(value, min, max) ==
  LET num == ToNumber(value) IN
    \/ ~IsNum(num)
    \/ IsNum(num) /\ min # NoLimit /\ num.v < min
    \/ IsNum(num) /\ max # NoLimit /\ num.v > max

ValidCategories ==
  { <<"s","t","r","e","n","g","t","h">>, <<"c","a","r","d","i","o">>,
    <<"f","l","e","x","i","b","i","l","i","t","y">>, <<"s","p","o","r","t","s">>,
    <<"o","t","h","e","r">> }

validateWorkoutCategory(category) == toLowerCase(category.v) \notin ValidCategories

\* --------------------------------------------------- workout-validation.ts
ActUpdate == Str(<<"u","p","d","a","t","e">>)
ActCreate == Str(<<"c","r","e","a","t","e">>)
ActDelete == Str(<<"d","e","l","e","t","e">>)

\* Whether validateUpdateExercise collects at least one error for data.
UpdateExerciseErrors(data) ==
  \/ ~IsUndef(data.id) /\ validateString(data.id, NoLimit, NoLimit)
  \/ ~IsUndef(data.name) /\ validateString(data.name, 1, 100)
  \/ ~IsUndef(data.reps) /\ ~IsNull(data.reps) /\ validateNumber(data.reps, 1, 1000)
  \/ ~IsUndef(data.sets) /\ ~IsNull(data.sets) /\ validateNumber(data.sets, 1, 100)
  \/ ~IsUndef(data.duration) /\ ~IsNull(data.duration)
       /\ validateString(data.duration, 1, 50)
  \/ ~IsUndef(data.notes) /\ ~IsNull(data.notes) /\ validateString(data.notes, 0, 500)
  \/ ~IsUndef(data.order) /\ validateNumber(data.order, 0, 1000)
  \/ ~IsUndef(data.action)
       /\ ~(IsStr(data.action) /\ data.action \in {ActUpdate, ActCreate, ActDelete})

\* Variant of validateUpdateExercise: reps is computed whether or not it was
\* supplied, so an absent reps comes out as null.
validateUpdateExercise_ClearsAbsent(data) ==
  [ id |-> data.id,
    name |-> IF IsUndef(data.name) THEN UNDEF ELSE Str(sanitizeString(data.name.v)),
    reps |-> IF Truthy(data.reps) THEN parseInt(data.reps) ELSE NULL,
    sets |-> IF IsUndef(data.sets) THEN UNDEF
             ELSE IF Truthy(data.sets) THEN parseInt(data.sets) ELSE NULL,
    duration |-> IF IsUndef(data.duration) THEN UNDEF
                 ELSE IF Truthy(data.duration) THEN Str(sanitizeString(data.duration.v))
                 ELSE NULL,
    notes |-> IF IsUndef(data.notes) THEN UNDEF
              ELSE IF Truthy(data.notes) THEN Str(sanitizeString(data.notes.v))
              ELSE NULL,
    order |-> IF IsUndef(data.order) THEN UNDEF ELSE parseInt(data.order),
    action |-> data.action ]

\* The UpdateExerciseData validateUpdateExercise returns when there is no error:
\* only the supplied properties are defined.
validateUpdateExercise(data) ==
  [ id |-> data.id,
    name |-> IF IsUndef(data.name) THEN UNDEF ELSE Str(sanitizeString(data.name.v)),
    reps |-> IF IsUndef(data.reps) THEN UNDEF
             ELSE IF Truthy(data.reps) THEN parseInt(data.reps) ELSE NULL,
    sets |-> IF IsUndef(data.sets) THEN UNDEF
             ELSE IF Truthy(data.sets) THEN parseInt(data.sets) ELSE NULL,
    duration |-> IF IsUndef(data.duration) THEN UNDEF
                 ELSE IF Truthy(data.duration) THEN Str(sanitizeString(data.duration.v))
                 ELSE NULL,
    notes |-> IF IsUndef(data.notes) THEN UNDEF
              ELSE IF Truthy(data.notes) THEN Str(sanitizeString(data.notes.v))
              ELSE NULL,
    order |-> IF IsUndef(data.order) THEN UNDEF ELSE parseInt(data.order),
    action |-> data.action ]

\* validateUpdateWorkout: [ok |-> FALSE] when a ValidationError is thrown,
\* otherwise the UpdateWorkoutRequest.
validateUpdateWorkout(data) ==
  LET errors ==
        \/ ~IsUndef(data.name) /\ validateString(data.name, 1, 100)
        \/ ~IsUndef(data.description) /\ validateString(data.description, 0, 500)
        \/ ~IsUndef(data.category)
             /\ (validateString(data.category, NoLimit, NoLimit)
                   \/ validateWorkoutCategory(data.category))
        \/ ~IsUndef(data.exercises) /\ ~IsArr(data.exercises)
        \/ IsArr(data.exercises)
             /\ \E i \in 1..Len(data.exercises.v) : UpdateExerciseErrors(data.exercises.v[i])
  IN IF errors THEN [ok |-> FALSE]
     ELSE [ ok |-> TRUE,
            name |-> IF IsUndef(data.name) THEN UNDEF
                     ELSE Str(sanitizeString(data.name.v)),
            description |-> IF IsUndef(data.description) THEN UNDEF
                            ELSE IF Truthy(data.description)
                              THEN Str(sanitizeString(data.description.v))
                            ELSE NULL,
            category |-> IF IsUndef(data.category) THEN UNDEF
                         ELSE Str(toLowerCase(data.category.v)),
            exercises |-> IF IsUndef(data.exercises) THEN UNDEF
                          ELSE Arr([i \in 1..Len(data.exercises.v) |->
                                     validateUpdateExercise(data.exercises.v[i])]) ]

\* Whether validateCreateExercise throws for data.
CreateExerciseErrors(data) ==
  \/ validateRequired(data.name) \/ validateString(data.name, 1, 100)
  \/ ~IsUndef(data.reps) /\ ~IsNull(data.reps) /\ validateNumber(data.reps, 1, 1000)
  \/ ~IsUndef(data.sets) /\ ~IsNull(data.sets) /\ validateNumber(data.sets, 1, 100)
  \/ ~IsUndef(data.duration) /\ ~IsNull(data.duration)
       /\ validateString(data.duration, 1, 50)
  \/ ~IsUndef(data.notes) /\ ~IsNull(data.notes) /\ validateString(data.notes, 0, 500)
  \/ validateRequired(data.order) \/ validateNumber(data.order, 0, 1000)

validateCreateExercise(data) ==
  [ name |-> Str(sanitizeString(data.name.v)),
    reps |-> IF Truthy(data.reps) THEN parseInt(data.reps) ELSE UNDEF,
    sets |-> IF Truthy(data.sets) THEN parseInt(data.sets) ELSE UNDEF,
    duration |-> IF Truthy(data.duration) THEN Str(sanitizeString(data.duration.v))
                 ELSE UNDEF,
    notes |-> IF Truthy(data.notes) THEN Str(sanitizeString(data.notes.v)) ELSE UNDEF,
    order |-> parseInt(data.order) ]

\* validateCreateWorkout: the exercises are validated by validateCreateExercise
\* (order is required there); the `?? index` default applies to the raw order.
validateCreateWorkout(data) ==
  LET errors ==
        \/ validateRequired(data.name) \/ validateString(data.name, 1, 100)
        \/ ~IsUndef(data.description) /\ ~IsNull(data.description)
             /\ validateString(data.description, 0, 500)
        \/ validateRequired(data.category)
        \/ validateString(data.category, NoLimit, NoLimit)
        \/ validateWorkoutCategory(data.category)
        \/ validateRequired(data.exercises) \/ ~IsArr(data.exercises)
        \/ IsArr(data.exercises) /\ Len(data.exercises.v) = 0
        \/ IsArr(data.exercises)
             /\ \E i \in 1..Len(data.exercises.v) : CreateExerciseErrors(data.exercises.v[i])
  IN IF errors THEN [ok |-> FALSE]
     ELSE [ ok |-> TRUE,
            name |-> Str(sanitizeString(data.name.v)),
            description |-> IF Truthy(data.description)
                              THEN Str(sanitizeString(data.description.v)) ELSE UNDEF,
            category |-> Str(toLowerCase(data.category.v)),
            exercises |-> [i \in 1..Len(data.exercises.v) |->
                 [validateCreateExercise(data.exercises.v[i]) EXCEPT
                    !.order = IF IsUndef(data.exercises.v[i].order)
                                   \/ IsNull(data.exercises.v[i].order)
                              THEN Num(i - 1) ELSE data.exercises.v[i].order]] ]

\* ------------------------------------------------------------ the database
\* workouts:  workout id  -> [name, description, category, isFavorite]
\* exercises: exercise id -> [workoutId, name, reps, sets, duration, notes, order]
\* nextWorkout, nextExercise: how many ids each table has assigned, plus one.
\* completions: completion id -> [workoutId, completedAt, notes, duration]
\* nextCompletion: how many completion ids have been assigned, plus one.
\* now: the database clock read by @default(now()).
\* call: the request being answered (its input, the database it started from
\*       and the response), or NoCall between requests.
\* requests: the requests that run interleaved with others, in the order they
\*       arrived: what each has read so far and how far it has got.
\* ---------------------------------------------------------- the middleware
\* rateLimit: the rateLimit option withApiMiddleware was given (UNDEF: none).
\* requestCounts: identifier -> [count, resetTime], the module-level Map.
\* grants: every call checkRateLimit allowed, as [identifier, resetTime, nth]:
\*       the nth allowed call of the window that ends at resetTime.
\* ------------------------------------------------------- the progress page
\* recentCompletions: stats.recentCompletions, the completedAt values
\*       getProgressStats selected, newest first.
\* -------------------------------------------------------------- the client
\* state, params: the two useState cells of useWorkouts.
\* mutations: [loading, error], the two useState cells of useWorkoutMutations.
\* sent: the requests the browser has sent, in the order they were sent,
\*       each with its response once it is answered (UNDEF before).
\* issued: how many list requests fetchWorkouts has sent.
\* toasts: the notifications shown, oldest first, each with the request
\*       it reports on.
VARIABLES workouts, exercises, nextWorkout, nextExercise,
          completions, nextCompletion, now, call, requests,
          rateLimit, requestCounts, grants, recentCompletions,
          state, params, mutations, sent, issued, toasts

vars == <<workouts, exercises, nextWorkout, nextExercise,
          completions, nextCompletion, now, call, requests,
          rateLimit, requestCounts, grants, recentCompletions,
          state, params, mutations, sent, issued, toasts>>

\* The route handlers' storage.
database == <<workouts, exercises, nextWorkout, nextExercise,
              completions, nextCompletion>>

\* The rate limiter of the middleware.
limiter == <<rateLimit, requestCounts, grants>>

\* The hooks and the pages of the browser.
client == <<state, params, mutations, sent, issued, toasts>>

\* What the route handlers leave alone.
others == <<limiter, recentCompletions, client>>

\* What a machine that serves one request at a time leaves alone.
background == <<requests, others>>

\* The n-th id a table generates (@default(cuid())).
cuid(n) == [i \in 1..n |-> "c"]

UntitledExercise ==
  <<"U","n","t","i","t","l","e","d"," ","E","x","e","r","c","i","s","e">>

\* A column left undefined in a create is stored as NULL (optional columns).
Column(x) == IF IsUndef(x) THEN NULL ELSE x

Database == [workouts |-> workouts, exercises |-> exercises,
             nextWorkout |-> nextWorkout, nextExercise |-> nextExercise,
             completions |-> completions, nextCompletion |-> nextCompletion]

\* include: { exercises: true } / where: { workoutId }
ExercisesOf(db, workoutId) ==
  {e \in DOMAIN db.exercises : db.exercises[e].workoutId = workoutId}

Remove(f, keys) == [k \in DOMAIN f \ keys |-> f[k]]

\* HTTP status handleApiError gives a thrown error.
ErrorStatus(err) ==
  CASE err = "ValidationError" -> 400
    [] err = "P2002" -> 409
    [] err = "P2025" -> 404
    [] err = "P2003" -> 400
    [] OTHER -> 500

\* ------------------------------------------- route.ts handleExerciseUpdates
\* A transaction in progress: tx.db is the database as the transaction sees
\* it, tx.err the error thrown so far ("" when none), tx.updated the
\* updatedExerciseIds set.
UpdateData(exerciseData) ==
  {f \in {"name", "reps", "sets", "duration", "notes", "order"} :
     ~IsUndef(exerciseData[f])}

\* Variant of DeleteExercise: the row is looked up but not removed.
DeleteExercise_Keeps(tx, exerciseData) ==
  IF exerciseData.id.v \in DOMAIN tx.db.exercises
    THEN tx
    ELSE [tx EXCEPT !.err = "P2025"]

\* tx.exercise.delete({ where: { id } })
DeleteExercise(tx, exerciseData) ==
  IF exerciseData.id.v \in DOMAIN tx.db.exercises
    THEN [tx EXCEPT !.db.exercises = Remove(@, {exerciseData.id.v})]
    ELSE [tx EXCEPT !.err = "P2025"]

\* Variant of UpdateExercise: order is defaulted to 0 as in the create branch.
UpdateExercise_DefaultOrder(tx, exerciseData) ==
  LET id == exerciseData.id.v
      updateData == UpdateData(exerciseData)
  IN IF updateData = {} THEN [tx EXCEPT !.updated = @ \cup {id}]
     ELSE IF "order" \in updateData /\ ~IsNum(exerciseData.order)
       THEN [tx EXCEPT !.err = "PrismaClientValidationError"]
     ELSE IF id \notin DOMAIN tx.db.exercises THEN [tx EXCEPT !.err = "P2025"]
     ELSE [tx EXCEPT
             !.db.exercises[id] =
                [f \in DOMAIN @ |->
                   IF f \in updateData THEN exerciseData[f]
                   ELSE IF f = "order" THEN Num(0) ELSE @[f]],
             !.updated = @ \cup {id}]

\* tx.exercise.update({ where: { id }, data: updateData })
UpdateExercise(tx, exerciseData) ==
  LET id == exerciseData.id.v
      updateData == UpdateData(exerciseData)
  IN IF updateData = {} THEN [tx EXCEPT !.updated = @ \cup {id}]
     ELSE IF "order" \in updateData /\ ~IsNum(exerciseData.order)
       THEN [tx EXCEPT !.err = "PrismaClientValidationError"]
     ELSE IF id \notin DOMAIN tx.db.exercises THEN [tx EXCEPT !.err = "P2025"]
     ELSE [tx EXCEPT
             !.db.exercises[id] =
                [f \in DOMAIN @ |-> IF f \in updateData THEN exerciseData[f] ELSE @[f]],
             !.updated = @ \cup {id}]

\* Variant of CreateExercise: name and order are stored as supplied, without
\* the "Untitled Exercise" and 0 defaults.
CreateExercise_NoDefaults(tx, workoutId, exerciseData) ==
  LET id == cuid(tx.db.nextExercise)
      createData ==
        [ workoutId |-> workoutId,
          name |-> Column(exerciseData.name),
          order |-> Column(exerciseData.order),
          reps |-> Column(exerciseData.reps),
          sets |-> Column(exerciseData.sets),
          duration |-> Column(exerciseData.duration),
          notes |-> Column(exerciseData.notes) ]
  IN IF workoutId \notin DOMAIN tx.db.workouts THEN [tx EXCEPT !.err = "P2003"]
     ELSE [tx EXCEPT
             !.db.exercises = [e \in DOMAIN @ \cup {id} |->
                                 IF e = id THEN createData ELSE @[e]],
             !.db.nextExercise = @ + 1,
             !.updated = @ \cup {id}]

\* tx.exercise.create({ data: createData })
CreateExercise(tx, workoutId, exerciseData) ==
  LET id == cuid(tx.db.nextExercise)
      createData ==
        [ workoutId |-> workoutId,
          name |-> IF Truthy(exerciseData.name) THEN exerciseData.name
                   ELSE Str(UntitledExercise),
          order |-> IF Truthy(exerciseData.order) THEN exerciseData.order ELSE Num(0),
          reps |-> Column(exerciseData.reps),
          sets |-> Column(exerciseData.sets),
          duration |-> Column(exerciseData.duration),
          notes |-> Column(exerciseData.notes) ]
  IN IF workoutId \notin DOMAIN tx.db.workouts THEN [tx EXCEPT !.err = "P2003"]
     ELSE [tx EXCEPT
             !.db.exercises = [e \in DOMAIN @ \cup {id} |->
                                 IF e = id THEN createData ELSE @[e]],
             !.db.nextExercise = @ + 1,
             !.updated = @ \cup {id}]

\* One iteration of the for loop over exerciseUpdates.
DispatchExercise(tx, workoutId, exerciseData, existingExerciseIds) ==
  IF exerciseData.action = ActDelete /\ Truthy(exerciseData.id)
    THEN DeleteExercise(tx, exerciseData)
  ELSE IF Truthy(exerciseData.id) /\ exerciseData.id.v \in existingExerciseIds
    THEN UpdateExercise(tx, exerciseData)
  ELSE CreateExercise(tx, workoutId, exerciseData)

\* The for loop: a thrown error ends it.
RECURSIVE DispatchAll(_, _, _, _, _)
DispatchAll(tx, workoutId, exerciseUpdates, existingExerciseIds, i) ==
  IF i > Len(exerciseUpdates) \/ tx.err # "" THEN tx
  ELSE DispatchAll(
         DispatchExercise(tx, workoutId, exerciseUpdates[i], existingExerciseIds),
         workoutId, exerciseUpdates, existingExerciseIds, i + 1)

\* Variants of hasCompleteExerciseList: the "create" tag is not looked at;
\* any non-empty list counts as complete.
hasCompleteExerciseList_IdsOnly(exerciseUpdates) ==
  \E i \in 1..Len(exerciseUpdates) : ~Truthy(exerciseUpdates[i].id)

hasCompleteExerciseList_AnyList(exerciseUpdates) ==
  Len(exerciseUpdates) > 0

hasCompleteExerciseList(exerciseUpdates) ==
  \E i \in 1..Len(exerciseUpdates) :
    ~Truthy(exerciseUpdates[i].id) \/ exerciseUpdates[i].action = ActCreate

exercisesToDelete(exerciseUpdates, existingExerciseIds, updatedExerciseIds) ==
  {e \in existingExerciseIds :
     /\ e \notin updatedExerciseIds
     /\ ~\E i \in 1..Len(exerciseUpdates) :
           /\ IsStr(exerciseUpdates[i].id) /\ exerciseUpdates[i].id.v = e
           /\ exerciseUpdates[i].action # ActDelete}

\* Variant of handleExerciseUpdates: the trailing deleteMany is left out.
handleExerciseUpdates_NoSweep(tx, workoutId, exerciseUpdates, existingExerciseIds) ==
  DispatchAll([tx EXCEPT !.updated = {}], workoutId, exerciseUpdates,
              existingExerciseIds, 1)

handleExerciseUpdates(tx, workoutId, exerciseUpdates, existingExerciseIds) ==
  LET after == DispatchAll([tx EXCEPT !.updated = {}], workoutId, exerciseUpdates,
                           existingExerciseIds, 1)
      toDelete == exercisesToDelete(exerciseUpdates, existingExerciseIds, after.updated)
  IN IF after.err # "" THEN after
     ELSE IF hasCompleteExerciseList(exerciseUpdates) /\ toDelete # {}
       THEN [after EXCEPT !.db.exercises = Remove(@, toDelete)]
     ELSE after

\* ------------------------------------------------------ route.ts PUT handler
\* Variant of PutTransaction: the workout update writes the description
\* whether or not the request supplied it.
PutTransaction_WritesDescription(tx, id, validatedData, existingExercises) ==
  LET afterWorkout ==
        IF id \notin DOMAIN tx.db.workouts THEN [tx EXCEPT !.err = "P2025"]
        ELSE [tx EXCEPT !.db.workouts[id] =
                [f \in DOMAIN @ |->
                   IF f = "description" THEN Column(validatedData[f])
                   ELSE IF f \in {"name", "category"} /\ ~IsUndef(validatedData[f])
                     THEN validatedData[f] ELSE @[f]]]
  IN IF afterWorkout.err # "" THEN afterWorkout
     ELSE IF IsArr(validatedData.exercises)
       THEN handleExerciseUpdates(afterWorkout, id, validatedData.exercises.v,
                                   existingExercises)
     ELSE afterWorkout

\* The body of prisma.$transaction in PUT: the workout fields, then the
\* exercises. existingExercises is what the handler loaded before.
PutTransaction(tx, id, validatedData, existingExercises) ==
  LET workoutUpdateData ==
        {f \in {"name", "description", "category"} : ~IsUndef(validatedData[f])}
      afterWorkout ==
        IF workoutUpdateData = {} THEN tx
        ELSE IF id \notin DOMAIN tx.db.workouts THEN [tx EXCEPT !.err = "P2025"]
        ELSE [tx EXCEPT !.db.workouts[id] =
                [f \in DOMAIN @ |->
                   IF f \in workoutUpdateData THEN validatedData[f] ELSE @[f]]]
  IN IF afterWorkout.err # "" THEN afterWorkout
     ELSE IF IsArr(validatedData.exercises)
       THEN handleExerciseUpdates(afterWorkout, id, validatedData.exercises.v,
                                   existingExercises)
     ELSE afterWorkout

\* Variant of Transaction: the writes go to the database as they are made
\* (prisma instead of tx), so a throw does not undo them.
Transaction_NoRollback(db, after) ==
  [db |-> after.db, err |-> after.err]

\* prisma.$transaction: commit when the callback returns, roll back when it
\* throws. The result is [db, err].
Transaction(db, after) ==
  IF after.err = "" THEN [db |-> after.db, err |-> ""]
  ELSE [db |-> db, err |-> after.err]

\* Variant of PutLoaded: the workout's name is written before the body is
\* validated.
PutLoaded_NameFirst(db, id, body, existingExercises) ==
  LET named == IF IsStr(body.name) THEN [db EXCEPT !.workouts[id].name = body.name]
               ELSE db
      validatedData == validateUpdateWorkout(body)
  IN
    IF ~validatedData.ok THEN [db |-> named, status |-> ErrorStatus("ValidationError")]
    ELSE
      LET done == Transaction(db,
                    PutTransaction([db |-> db, err |-> "", updated |-> {}], id,
                                   validatedData, existingExercises))
      IN IF done.err # "" THEN [db |-> done.db, status |-> ErrorStatus(done.err)]
         ELSE IF id \notin DOMAIN done.db.workouts THEN [db |-> done.db, status |-> 500]
         ELSE [db |-> done.db, status |-> 200]

\* PUT once existingWorkout is loaded: validation, transaction, response.
\* existingExercises is the exercises of existingWorkout; db is the database
\* when the transaction runs.
PutLoaded(db, id, body, existingExercises) ==
  LET validatedData == validateUpdateWorkout(body) IN
    IF ~validatedData.ok THEN [db |-> db, status |-> ErrorStatus("ValidationError")]
    ELSE
      LET done == Transaction(db,
                    PutTransaction([db |-> db, err |-> "", updated |-> {}], id,
                                   validatedData, existingExercises))
      IN IF done.err # "" THEN [db |-> done.db, status |-> ErrorStatus(done.err)]
         ELSE IF id \notin DOMAIN done.db.workouts THEN [db |-> done.db, status |-> 500]
         ELSE [db |-> done.db, status |-> 200]

\* The whole PUT handler, run without interleaving.
PutHandler(db, id, body) ==
  IF id \notin DOMAIN db.workouts THEN [db |-> db, status |-> 404]
  ELSE PutLoaded(db, id, body, ExercisesOf(db, id))

\* ------------------------------------------- POST /workouts (create) handler
\* Variant of CreatedExercises: every row gets its array index as order.
CreatedExercises_IndexOrder(db, workoutId, list) ==
  [e \in DOMAIN db.exercises \cup {cuid(db.nextExercise + i - 1) : i \in 1..Len(list)} |->
     IF e \in DOMAIN db.exercises THEN db.exercises[e]
     ELSE LET x == list[Len(e) - db.nextExercise + 1] IN
            [ workoutId |-> workoutId, name |-> x.name,
              order |-> Num(Len(e) - db.nextExercise),
              reps |-> Column(x.reps), sets |-> Column(x.sets),
              duration |-> Column(x.duration), notes |-> Column(x.notes) ]]

\* tx.exercise.createMany: one row per validated exercise, ids in array order.
CreatedExercises(db, workoutId, list) ==
  [e \in DOMAIN db.exercises \cup {cuid(db.nextExercise + i - 1) : i \in 1..Len(list)} |->
     IF e \in DOMAIN db.exercises THEN db.exercises[e]
     ELSE LET x == list[Len(e) - db.nextExercise + 1] IN
            [ workoutId |-> workoutId, name |-> x.name, order |-> x.order,
              reps |-> Column(x.reps), sets |-> Column(x.sets),
              duration |-> Column(x.duration), notes |-> Column(x.notes) ]]

PostHandler(db, body) ==
  LET validatedData == validateCreateWorkout(body) IN
    IF ~validatedData.ok THEN [db |-> db, status |-> ErrorStatus("ValidationError")]
    ELSE IF \E i \in 1..Len(validatedData.exercises) :
               ~IsNum(validatedData.exercises[i].order)
      THEN [db |-> db, status |-> ErrorStatus("PrismaClientValidationError")]
    ELSE
      LET id == cuid(db.nextWorkout)
          newWorkout == [ name |-> validatedData.name,
                          description |-> Column(validatedData.description),
                          category |-> validatedData.category,
                          isFavorite |-> FALSE ]
      IN [ db |-> [ db EXCEPT
                    !.workouts = [w \in DOMAIN db.workouts \cup {id} |->
                                    IF w = id THEN newWorkout ELSE db.workouts[w]],
                    !.exercises = CreatedExercises(db, id, validatedData.exercises),
                    !.nextWorkout = db.nextWorkout + 1,
                    !.nextExercise = db.nextExercise + Len(validatedData.exercises) ],
           status |-> 201 ]

\* ------------------------------------------------ validateCompleteWorkout
validateCompleteWorkout(data) ==
  LET hasNotes == ~IsUndef(data.notes) /\ ~IsNull(data.notes)
      hasDuration == ~IsUndef(data.duration) /\ ~IsNull(data.duration)
      errors ==
        \/ hasNotes /\ validateString(data.notes, 0, 1000)
        \/ hasDuration /\ validateNumber(data.duration, 1, 600)
  IN IF errors THEN [ok |-> FALSE]
     ELSE [ ok |-> TRUE,
            notes |-> IF hasNotes THEN Str(sanitizeString(data.notes.v)) ELSE UNDEF,
            duration |-> IF hasDuration THEN parseInt(data.duration) ELSE UNDEF ]

\* ------------------------------------------------------- response bodies
\* The sequences that list every element of S once.
Orderings(S) ==
  {s \in [1..Cardinality(S) -> S] : \A i, j \in DOMAIN s : s[i] = s[j] => i = j}

OrderByAsc_Unordered(db, ids) == Orderings(ids)

\* include: { exercises: { orderBy: { order: 'asc' } } }: the rows in
\* ascending order; rows of equal order come in whatever order the database
\* returns them.
OrderByAsc(db, ids) ==
  {s \in Orderings(ids) :
     \A i, j \in DOMAIN s : i < j => db.exercises[s[i]].order.v <= db.exercises[s[j]].order.v}

CompletionsOf(db, workoutId) ==
  {c \in DOMAIN db.completions : db.completions[c].workoutId = workoutId}

\* include: { completions: { orderBy: { completedAt: 'desc' } } }
OrderByCompletedAtDesc(db, ids) ==
  {s \in Orderings(ids) :
     \A i, j \in DOMAIN s :
        i < j => db.completions[s[i]].completedAt >= db.completions[s[j]].completedAt}

\* Variant of lastCompleted: the completions are taken oldest first.
lastCompleted_Oldest(db, workoutId) ==
  LET ids == CompletionsOf(db, workoutId) IN
    IF ids = {} THEN NULL
    ELSE Num(CHOOSE t \in {db.completions[c].completedAt : c \in ids} :
               \A c \in ids : db.completions[c].completedAt >= t)

\* completions[0]?.completedAt.toISOString() || null, completions newest first.
lastCompleted(db, workoutId) ==
  LET ids == CompletionsOf(db, workoutId) IN
    IF ids = {} THEN NULL
    ELSE Num(CHOOSE t \in {db.completions[c].completedAt : c \in ids} :
               \A c \in ids : db.completions[c].completedAt <= t)

ExerciseResponse(db, e) ==
  [ id |-> e, name |-> db.exercises[e].name, reps |-> db.exercises[e].reps,
    sets |-> db.exercises[e].sets, duration |-> db.exercises[e].duration,
    notes |-> db.exercises[e].notes, order |-> db.exercises[e].order ]

CompletionResponse(db, c) ==
  [ id |-> c, completedAt |-> Num(db.completions[c].completedAt),
    notes |-> db.completions[c].notes, duration |-> db.completions[c].duration ]

\* The WorkoutResponse assembled from a fetched workout whose exercises came
\* back in the sequence exs (createdAt and updatedAt are not modelled).
WorkoutResponse(db, id, exs) ==
  [ id |-> id, name |-> db.workouts[id].name,
    description |-> db.workouts[id].description,
    category |-> db.workouts[id].category,
    isFavorite |-> db.workouts[id].isFavorite,
    exerciseCount |-> Cardinality(ExercisesOf(db, id)),
    completionCount |-> Cardinality(CompletionsOf(db, id)),
    lastCompleted |-> lastCompleted(db, id),
    exercises |-> [i \in DOMAIN exs |-> ExerciseResponse(db, exs[i])] ]

WorkoutResponses(db, id) ==
  {WorkoutResponse(db, id, exs) : exs \in OrderByAsc(db, ExercisesOf(db, id))}

ErrorBody == [error |-> TRUE]

\* ------------------------------------------------------ GET /workouts/{id}
GetResponses(db, id) ==
  IF id \notin DOMAIN db.workouts THEN {ErrorBody}
  ELSE { [ workout |-> w,
           completions |-> [i \in DOMAIN cs |-> CompletionResponse(db, cs[i])] ] :
           w \in WorkoutResponses(db, id),
           cs \in OrderByCompletedAtDesc(db, CompletionsOf(db, id)) }

GetHandler(db, id) ==
  [ db |-> db,
    status |-> IF id \in DOMAIN db.workouts THEN 200 ELSE 404,
    responses |-> GetResponses(db, id) ]

\* -------------------------------------------- PATCH /workouts/{id}/favorite
PatchHandler_SetsFavorite(db, id) ==
  IF id \notin DOMAIN db.workouts
  THEN [db |-> db, status |-> 404, responses |-> {ErrorBody}]
  ELSE LET after == [db EXCEPT !.workouts[id].isFavorite = TRUE]
       IN [db |-> after, status |-> 200, responses |-> WorkoutResponses(after, id)]

PatchHandler(db, id) ==
  IF id \notin DOMAIN db.workouts
  THEN [db |-> db, status |-> 404, responses |-> {ErrorBody}]
  ELSE LET after == [db EXCEPT !.workouts[id].isFavorite = ~db.workouts[id].isFavorite]
       IN [db |-> after, status |-> 200, responses |-> WorkoutResponses(after, id)]

\* ---------------------------------------------------- DELETE /workouts/{id}
\* The referential actions of the schema: Exercise.workout is declared
\* onDelete: Cascade; WorkoutCompletion.workout declares none, and the
\* default for a required relation is Restrict.
ExerciseOnDelete == "Cascade"
CompletionOnDelete == "Restrict"

\* prisma.workout.delete({ where: { id } })
WorkoutDelete(db, id) ==
  IF \/ ExerciseOnDelete = "Restrict" /\ ExercisesOf(db, id) # {}
     \/ CompletionOnDelete = "Restrict" /\ CompletionsOf(db, id) # {}
  THEN [db |-> db, err |-> "P2003"]
  ELSE [db |-> [db EXCEPT !.workouts = Remove(db.workouts, {id}),
                          !.exercises = Remove(db.exercises, ExercisesOf(db, id)),
                          !.completions = Remove(db.completions, CompletionsOf(db, id))],
        err |-> ""]

DeleteHandler(db, id) ==
  IF id \notin DOMAIN db.workouts
  THEN [db |-> db, status |-> 404, responses |-> {ErrorBody}]
  ELSE LET done == WorkoutDelete(db, id) IN
         IF done.err # ""
         THEN [db |-> done.db, status |-> ErrorStatus(done.err), responses |-> {ErrorBody}]
         ELSE [db |-> done.db, status |-> 204, responses |-> {[deleted |-> TRUE]}]

\* ------------------------------------------- POST /workouts/{id}/complete
\* t is the value of the clock when the row is inserted (@default(now())).
CompleteHandler(db, id, body, t) ==
  IF id \notin DOMAIN db.workouts
  THEN [db |-> db, status |-> 404, responses |-> {ErrorBody}]
  ELSE LET validatedData == validateCompleteWorkout(body) IN
    IF ~validatedData.ok
    THEN [db |-> db, status |-> ErrorStatus("ValidationError"), responses |-> {ErrorBody}]
    ELSE
      LET c == cuid(db.nextCompletion)
          completion == [ workoutId |-> id, completedAt |-> t,
                          notes |-> Column(validatedData.notes),
                          duration |-> Column(validatedData.duration) ]
          after == [db EXCEPT
                      !.completions = [k \in DOMAIN db.completions \cup {c} |->
                                         IF k = c THEN completion ELSE db.completions[k]],
                      !.nextCompletion = db.nextCompletion + 1]
      IN [ db |-> after, status |-> 201,
           responses |-> {[completion |-> CompletionResponse(after, c)]} ]

\* ------------------------------------------------------------ GET /workouts
Contains(s, sub) ==
  \E i \in 0..(Len(s) - Len(sub)) : SubSeq(s, i + 1, i + Len(sub)) = sub

DefaultPage == <<"1">>
DefaultLimit == <<"2","0">>
MaxLimit == 100

\* parseQueryParams: every parameter is a string, or NULL when it is absent.
parseQueryParams(query) ==
  LET limit == parseInt(IF Truthy(query.limit) THEN query.limit ELSE Str(DefaultLimit)) IN
  [ category |-> query.category, search |-> query.search, favorite |-> query.favorite,
    page |-> parseInt(IF Truthy(query.page) THEN query.page ELSE Str(DefaultPage)),
    limit |-> IF IsNum(limit) /\ limit.v > MaxLimit THEN Num(MaxLimit) ELSE limit ]

\* The where clause built from the parsed parameters.
Where(db, q) ==
  {w \in DOMAIN db.workouts :
     /\ Truthy(q.category) =>
          toLowerCase(db.workouts[w].category.v) = toLowerCase(q.category.v)
     /\ Truthy(q.search) =>
          \/ Contains(toLowerCase(db.workouts[w].name.v), toLowerCase(q.search.v))
          \/ /\ IsStr(db.workouts[w].description)
             /\ Contains(toLowerCase(db.workouts[w].description.v), toLowerCase(q.search.v))
     /\ ~IsNull(q.favorite) =>
          db.workouts[w].isFavorite = (toLowerCase(q.favorite.v) = <<"t","r","u","e">>)}

\* orderBy: [{ isFavorite: 'desc' }, { updatedAt: 'desc' }]. updatedAt is not
\* modelled: workouts of equal isFavorite may come in any order.
OrderByFavoriteDesc(db, ids) ==
  {s \in Orderings(ids) :
     \A i, j \in DOMAIN s :
        i < j => (db.workouts[s[j]].isFavorite => db.workouts[s[i]].isFavorite)}

\* skip / take
Page(s, skip, take) ==
  SubSeq(s, skip + 1, IF skip + take < Len(s) THEN skip + take ELSE Len(s))

ListResponses(db, q) ==
  LET matching == Where(db, q)
      skip == (q.page.v - 1) * q.limit.v
      total == Cardinality(matching)
      \* Math.ceil(totalCount / limit): a division by zero is not a number,
      \* which JSON writes as null.
      pagination == [ page |-> q.page, limit |-> q.limit, total |-> Num(total),
                      totalPages |-> IF q.limit.v = 0 THEN NULL
                                     ELSE Num((total + q.limit.v - 1) \div q.limit.v) ]
  IN UNION { { [ data |-> [i \in DOMAIN ws |-> WorkoutResponse(db, ws[i], exs[ws[i]])],
                 pagination |-> pagination ] :
               exs \in { f \in [matching -> UNION {OrderByAsc(db, ExercisesOf(db, w)) :
                                                    w \in matching}] :
                           \A w \in matching : f[w] \in OrderByAsc(db, ExercisesOf(db, w)) } } :
             ws \in {Page(s, skip, q.limit.v) : s \in OrderByFavoriteDesc(db, matching)} }

ListHandler(db, query) ==
  LET q == parseQueryParams(query) IN
    IF ~IsNum(q.page) \/ ~IsNum(q.limit) \/ q.page.v < 1
    THEN [db |-> db, status |-> ErrorStatus("PrismaClientValidationError"),
          responses |-> {ErrorBody}]
    ELSE [db |-> db, status |-> 200, responses |-> ListResponses(db, q)]

\* ------------------------------------------------------------ request inputs
NoCall == [op |-> "none"]

\* Sequences over S of length lo..hi
SeqsOf(S, lo, hi) == UNION {[1..n -> S] : n \in lo..hi}

NameA == Str(<<"a">>)
NameB == Str(<<"b">>)

\* Exercise entries of a create request.
CreateEntries ==
  { [name |-> NameA, reps |-> UNDEF, sets |-> UNDEF, duration |-> UNDEF,
     notes |-> UNDEF, order |-> Num(1)],
    [name |-> NameB, reps |-> Num(5), sets |-> UNDEF, duration |-> UNDEF,
     notes |-> UNDEF, order |-> Num(0)],
    [name |-> NameA, reps |-> UNDEF, sets |-> UNDEF, duration |-> UNDEF,
     notes |-> UNDEF, order |-> UNDEF] }

CreateBodies ==
  { [name |-> NameA, description |-> UNDEF,
     category |-> Str(<<"C","a","r","d","i","o">>), exercises |-> Arr(list)] :
       list \in SeqsOf(CreateEntries, 0, MaxDirs) }

\* The fields an update directive supplies: none, the name, or reps and order.
NoFields ==
  [name |-> UNDEF, reps |-> UNDEF, sets |-> UNDEF, duration |-> UNDEF,
   notes |-> UNDEF, order |-> UNDEF]

FieldPatches ==
  { [NoFields EXCEPT !.name = NameB], [NoFields EXCEPT !.reps = NULL, !.order = Num(1)] }

Directive(i, p, a) ==
  [id |-> i, name |-> p.name, reps |-> p.reps, sets |-> p.sets,
   duration |-> p.duration, notes |-> p.notes, order |-> p.order, action |-> a]

\* Ids a client can send: none, or an id some exercise has or had.
DirectiveIds(db) == {UNDEF} \cup {Str(cuid(n)) : n \in 1..(db.nextExercise - 1)}

\* Directives of a request: a delete carries no field, an "update" tag comes
\* with a name, a "create" tag with a patch, and an untagged directive with a
\* patch or nothing.
Directives(db) ==
  {Directive(i, NoFields, a) : i \in DirectiveIds(db), a \in {UNDEF, ActDelete}}
    \cup {Directive(i, [NoFields EXCEPT !.name = NameB], ActUpdate) : i \in DirectiveIds(db)}
    \cup {Directive(i, p, a) : i \in DirectiveIds(db), p \in FieldPatches,
                               a \in {UNDEF, ActCreate}}

\* Bodies of an update request: an exercises array alone, or a new name with
\* at most one directive.
UpdateBodies(db) ==
  { [name |-> UNDEF, description |-> UNDEF, category |-> UNDEF, exercises |-> Arr(list)] :
      list \in SeqsOf(Directives(db), 0, MaxDirs) }
    \cup
  { [name |-> NameB, description |-> UNDEF, category |-> UNDEF, exercises |-> x] :
      x \in {UNDEF} \cup {Arr(list) : list \in SeqsOf(Directives(db), 0, 1)} }

\* Bodies sent to an id no workout has: the handler answers before reading it.
MissingBodies ==
  { [name |-> NameB, description |-> UNDEF, category |-> UNDEF, exercises |-> UNDEF] }

\* useWorkouts(initialParams): the page passes no search and no category.
InitialParams == [search |-> UNDEF, category |-> UNDEF]

\* ------------------------------------------------------------- the machine
Init ==
  /\ workouts = << >>
  /\ exercises = << >>
  /\ nextWorkout = 1
  /\ nextExercise = 1
  /\ completions = << >>
  /\ nextCompletion = 1
  /\ now = 0
  /\ call = NoCall
  /\ requests = << >>
  /\ rateLimit = UNDEF
  /\ requestCounts = << >>
  /\ grants = {}
  /\ recentCompletions = << >>
  /\ state = [workouts |-> << >>, loading |-> TRUE, error |-> NULL, pagination |-> NULL]
  /\ params = InitialParams
  /\ mutations = [loading |-> FALSE, error |-> NULL]
  /\ sent = << >>
  /\ issued = 0
  /\ toasts = << >>

Commit(op, id, body, result) ==
  /\ result.db.nextWorkout <= MaxWorkouts + 1
  /\ result.db.nextExercise <= MaxExercises + 1
  /\ workouts' = result.db.workouts
  /\ exercises' = result.db.exercises
  /\ nextWorkout' = result.db.nextWorkout
  /\ nextExercise' = result.db.nextExercise
  /\ completions' = result.db.completions
  /\ nextCompletion' = result.db.nextCompletion
  /\ UNCHANGED <<now, background>>
  /\ call' = [op |-> op, id |-> id, body |-> body, pre |-> Database,
              status |-> result.status]

\* POST /workouts
POST ==
  /\ call = NoCall
  /\ \E body \in CreateBodies :
       Commit("POST", cuid(nextWorkout), body, PostHandler(Database, body))

\* PUT /workouts/{id}
PUT ==
  /\ call = NoCall
  /\ \E n \in 1..nextWorkout :
       \E body \in IF n < nextWorkout THEN UpdateBodies(Database) ELSE MissingBodies :
         Commit("PUT", cuid(n), body, PutHandler(Database, cuid(n), body))

\* The response is delivered; the server waits for the next request.
Return ==
  /\ call # NoCall
  /\ call' = NoCall
  /\ UNCHANGED <<workouts, exercises, nextWorkout, nextExercise,
                 completions, nextCompletion, now, background>>

Next == POST \/ PUT \/ Return

Spec == Init /\ [][Next]_vars

\* ============================================================== properties
\* The request just answered, in the terms of the API: the directives of its
\* exercises array, the exercises the workout had before it, and the ids the
\* call inserted.
IsPut == call.op = "PUT"
PutOk == IsPut /\ call.status = 200
HasList == IsPut /\ IsArr(call.body.exercises)
Dirs == IF HasList THEN call.body.exercises.v ELSE << >>
PreExercises == ExercisesOf(call.pre, call.id)
PostExercises == ExercisesOf(Database, call.id)
NewExercises == DOMAIN exercises \ DOMAIN call.pre.exercises

HasId(d) == IsStr(d.id) /\ Len(d.id.v) > 0
Refers(d, e) == HasId(d) /\ d.id.v = e
Referenced(e) == \E i \in 1..Len(Dirs) : Refers(Dirs[i], e)
DeleteTargeted(e) == \E i \in 1..Len(Dirs) : Refers(Dirs[i], e) /\ Dirs[i].action = ActDelete
ReplacementList == \E i \in 1..Len(Dirs) : ~HasId(Dirs[i]) \/ Dirs[i].action = ActCreate
ExerciseFields == {"name", "reps", "sets", "duration", "notes", "order"}

\* C1: after a successful PUT whose list has a directive with no id or tagged
\* "create", no exercise the workout had before and that no directive
\* references is still persisted.
C1_ReplaceInvariant ==
  (PutOk /\ ReplacementList) =>
     \A e \in PreExercises : ~Referenced(e) => e \notin DOMAIN exercises

C1_Witness ==
  /\ PutOk /\ ReplacementList
  /\ \E e \in PreExercises : ~Referenced(e) /\ e \notin DOMAIN exercises
  /\ \E e \in PreExercises : Referenced(e) /\ e \in DOMAIN exercises

\* C2 as stated: when every directive carries the id of an exercise of the
\* workout, no exercise of the workout is deleted, whatever the _action tags.
C2_AsStated ==
  (HasList /\ \A i \in 1..Len(Dirs) : HasId(Dirs[i]) /\ Dirs[i].id.v \in PreExercises)
     => PreExercises \subseteq PostExercises

\* C2 amended: when every directive carries the id of an exercise of the
\* workout and is untagged or tagged "update", no exercise of the workout is
\* deleted.
C2_PartialPatch ==
  (HasList /\ \A i \in 1..Len(Dirs) :
                 /\ HasId(Dirs[i]) /\ Dirs[i].id.v \in PreExercises
                 /\ Dirs[i].action \in {UNDEF, ActUpdate})
     => PreExercises \subseteq PostExercises

C2_Witness ==
  /\ PutOk /\ Len(Dirs) = 2
  /\ \A i \in 1..Len(Dirs) :
        /\ HasId(Dirs[i]) /\ Dirs[i].id.v \in PreExercises
        /\ Dirs[i].action \in {UNDEF, ActUpdate}
  /\ \E i \in 1..Len(Dirs) : Dirs[i].action = ActUpdate
  /\ \E e \in PreExercises : ~Referenced(e) /\ e \in PostExercises

\* C3: a PUT that does not succeed leaves the whole database (every workout
\* field, every exercise row) as it was before the call.
C3_Atomicity ==
  (IsPut /\ call.status # 200) => Database = call.pre

\* A transaction that failed at its second directive, after a first directive
\* that inserts or changes a row.
C3_Witness ==
  /\ IsPut /\ call.status = 404 /\ call.id \in DOMAIN call.pre.workouts
  /\ Len(Dirs) = 2
  /\ ~HasId(Dirs[1]) \/ (Dirs[1].id.v \in PreExercises /\ Dirs[1].name = NameB
                           /\ call.pre.exercises[Dirs[1].id.v].name # NameB)
  /\ HasId(Dirs[2]) /\ Dirs[2].action = ActDelete
  /\ Database = call.pre

\* C4 as stated: after a successful replacement-mode PUT the workout holds
\* exactly the exercises an id-bearing directive updated in place plus the
\* exercises the call created.
UpdatedInPlace ==
  {e \in PreExercises :
     \E i \in 1..Len(Dirs) : Refers(Dirs[i], e) /\ Dirs[i].action # ActDelete}

\* The directives the call dispatches to the create branch.
Creating ==
  {i \in 1..Len(Dirs) :
     /\ ~(Dirs[i].action = ActDelete /\ HasId(Dirs[i]))
     /\ ~HasId(Dirs[i]) \/ Dirs[i].id.v \notin PreExercises}

C4_AsStated ==
  (PutOk /\ ReplacementList) =>
     /\ PostExercises = UpdatedInPlace \cup (NewExercises \cap PostExercises)
     /\ Cardinality(NewExercises) = Cardinality(Creating)

\* C4 amended: ... exactly the exercises an id-bearing directive updated in
\* place and no delete directive of the list targets, plus the exercises the
\* call created (one per directive dispatched to creation).
C4_ReplacementResult ==
  (PutOk /\ ReplacementList) =>
     /\ PostExercises = {e \in UpdatedInPlace : ~DeleteTargeted(e)}
                          \cup (NewExercises \cap PostExercises)
     /\ NewExercises \subseteq PostExercises
     /\ Cardinality(NewExercises) = Cardinality(Creating)

\* The spec's scenario: [E1, E2], directives [{id:E1,name}, {name,order,create}].
C4_Witness ==
  /\ PutOk /\ Cardinality(PreExercises) = 2 /\ Len(Dirs) = 2
  /\ HasId(Dirs[1]) /\ Dirs[1].id.v \in PreExercises /\ IsUndef(Dirs[1].action)
  /\ Dirs[1].name = NameB
  /\ ~HasId(Dirs[2]) /\ Dirs[2].action = ActCreate
  /\ Cardinality(PostExercises) = 2
  /\ Dirs[1].id.v \in PostExercises
  /\ Cardinality(NewExercises) = 1

\* C5: after a successful PUT whose directives all carry an id and none is
\* tagged "create", the exercises removed from the workout are exactly those a
\* delete directive targets, and every exercise no directive references keeps
\* all its fields.
C5_DeleteByAction ==
  (PutOk /\ \A i \in 1..Len(Dirs) : HasId(Dirs[i]) /\ Dirs[i].action # ActCreate) =>
     /\ PreExercises \ PostExercises = {e \in PreExercises : DeleteTargeted(e)}
     /\ \A e \in PreExercises :
          ~Referenced(e) => /\ e \in DOMAIN exercises
                            /\ exercises[e] = call.pre.exercises[e]

C5_Witness ==
  /\ PutOk /\ Len(Dirs) = 1
  /\ HasId(Dirs[1]) /\ Dirs[1].action = ActDelete /\ Dirs[1].id.v \in PreExercises
  /\ \E e \in PreExercises : ~Referenced(e) /\ e \in PostExercises
  /\ Dirs[1].id.v \notin DOMAIN exercises

\* The list without its directives tagged "delete" that carry no id.
RECURSIVE WithoutIdlessDeletes(_)
WithoutIdlessDeletes(list) ==
  IF list = << >> THEN << >>
  ELSE IF Head(list).action = ActDelete /\ ~HasId(Head(list))
    THEN WithoutIdlessDeletes(Tail(list))
  ELSE <<Head(list)>> \o WithoutIdlessDeletes(Tail(list))

\* C6: a directive tagged "delete" that carries no id is a no-op: the PUT
\* leaves the database as the same PUT without those directives would.
C6_IdlessDeleteNoOp ==
  HasList =>
    Database = PutHandler(call.pre, call.id,
                 [call.body EXCEPT !.exercises = Arr(WithoutIdlessDeletes(Dirs))]).db

\* C7: the documented dispatch. In a successful PUT whose id-bearing
\* directives all name an exercise of the workout: one exercise is created per
\* directive with no id or tagged "create"; an exercise named by a "delete"
\* directive is gone.
C7_DocumentedBehaviour ==
  (PutOk /\ \A i \in 1..Len(Dirs) : HasId(Dirs[i]) => Dirs[i].id.v \in PreExercises) =>
     /\ Cardinality(NewExercises) =
          Cardinality({i \in 1..Len(Dirs) : ~HasId(Dirs[i]) \/ Dirs[i].action = ActCreate})
     /\ \A e \in PreExercises : DeleteTargeted(e) => e \notin DOMAIN exercises

\* C8: an exercise that is persisted before and after a PUT keeps the value of
\* every field that no directive carrying its id supplies (order included),
\* and stays in its workout.
C8_OnlySuppliedFieldsChange ==
  IsPut =>
    \A e \in PreExercises \cap DOMAIN exercises :
       /\ exercises[e].workoutId = call.id
       /\ \A f \in ExerciseFields :
            (~\E i \in 1..Len(Dirs) : Refers(Dirs[i], e) /\ ~IsUndef(Dirs[i][f]))
               => exercises[e][f] = call.pre.exercises[e][f]

\* A second directive renames an exercise whose order is not 0 and whose
\* position in the list is not its order.
C8_Witness ==
  /\ PutOk /\ Len(Dirs) = 2
  /\ HasId(Dirs[2]) /\ Dirs[2].id.v \in PreExercises \cap DOMAIN exercises
  /\ Dirs[2].name = NameB /\ IsUndef(Dirs[2].order)
  /\ call.pre.exercises[Dirs[2].id.v].name # NameB
  /\ exercises[Dirs[2].id.v].name = NameB
  /\ exercises[Dirs[2].id.v].order = Num(1)

Rank(i) == Cardinality({j \in Creating : j <= i})
CreatedBy(i) == cuid(call.pre.nextExercise + Rank(i) - 1)

UnchangedValues ==
  /\ HasList /\ Len(Dirs) > 0
  /\ \A i \in 1..Len(Dirs) :
       /\ HasId(Dirs[i]) /\ Dirs[i].id.v \in PreExercises /\ IsUndef(Dirs[i].action)
       /\ \A f \in ExerciseFields :
            ~IsUndef(Dirs[i][f]) => Dirs[i][f] = call.pre.exercises[Dirs[i].id.v][f]

\* C10: a PUT of only id-bearing, untagged directives whose values equal the
\* persisted ones leaves every exercise as it was, and submitting it a second
\* time succeeds and again changes nothing.
C10_Idempotence ==
  (PutOk /\ UnchangedValues) =>
     /\ exercises = call.pre.exercises
     /\ Cardinality(PostExercises) = Cardinality(PreExercises)
     /\ LET second == PutHandler(Database, call.id, call.body) IN
          second.status = 200 /\ second.db = Database

C10_Witness ==
  /\ PutOk /\ UnchangedValues /\ Len(Dirs) = 2
  /\ Dirs[1].name = NameB /\ Dirs[2].order = Num(1)
  /\ ~IsNull(call.pre.exercises[Dirs[1].id.v].reps)


\* ======================================================== the API surface
\* Two more machines serve the routes of the API over one database.
\* SpecApi manages workouts and their exercises: create, update, fetch,
\* list, delete and favorite toggle. SpecCompletions records completions:
\* create, rename, complete, fetch, list, delete and favorite toggle.
MaxCompletions == 2

PostResponses(result, id) ==
  IF result.status = 201
  THEN {[w EXCEPT !.lastCompleted = NULL] : w \in WorkoutResponses(result.db, id)}
  ELSE {ErrorBody}

PutResponses(result, id) ==
  IF result.status = 200 THEN WorkoutResponses(result.db, id) ELSE {ErrorBody}

\* Bodies of a create request: exercises submitted out of order, a single
\* exercise, and an empty list.
EntryA == [NoFields EXCEPT !.name = NameA, !.order = Num(1)]
EntryB == [NoFields EXCEPT !.name = NameB, !.reps = Num(5), !.order = Num(0)]

ApiCreateBodies ==
  { [name |-> NameA, description |-> Str(<<"d">>),
     category |-> Str(<<"C","a","r","d","i","o">>), exercises |-> Arr(list)] :
       list \in {<<EntryA, EntryB>>, <<EntryB>>, << >>} }

\* Directives of an update: set an exercise's order to 1 and clear its reps,
\* add such an exercise, or delete one.
ApiDirectives(db) ==
  {Directive(i, [NoFields EXCEPT !.reps = NULL, !.order = Num(1)], UNDEF) :
     i \in DirectiveIds(db)}
    \cup {Directive(i, NoFields, ActDelete) : i \in DirectiveIds(db) \ {UNDEF}}

\* A body that fails validation after its name passed: an exercise name of
\* no characters.
InvalidUpdateBody ==
  [name |-> NameB, description |-> UNDEF, category |-> UNDEF,
   exercises |-> Arr(<<Directive(UNDEF, [NoFields EXCEPT !.name = Str(<< >>)], UNDEF)>>)]

\* Bodies that leave the exercises alone: a new name, or a rejected body.
ScalarBodies == MissingBodies \cup {InvalidUpdateBody}

ApiUpdateBodies(db) ==
  { [name |-> UNDEF, description |-> UNDEF, category |-> UNDEF, exercises |-> Arr(list)] :
      list \in SeqsOf(ApiDirectives(db), 1, 1) }
    \cup ScalarBodies

CompleteBodies ==
  { [notes |-> UNDEF, duration |-> UNDEF],
    [notes |-> Str(<<"n"," ">>), duration |-> Str(<<"4","5">>)],
    [notes |-> UNDEF, duration |-> Num(0)] }

NoQuery ==
  [category |-> NULL, search |-> NULL, favorite |-> NULL, page |-> NULL, limit |-> NULL]

ListQueries ==
  { NoQuery,
    [NoQuery EXCEPT !.category = Str(<<"C","A","R","D","I","O">>)],
    [NoQuery EXCEPT !.search = Str(<<"B">>)],
    [NoQuery EXCEPT !.favorite = Str(<<"t","r","u","e">>)],
    [NoQuery EXCEPT !.limit = Str(<<"1">>)],
    [NoQuery EXCEPT !.page = Str(<<"2">>), !.limit = Str(<<"1">>)] }

\* The handler's result is stored, one of its possible response bodies is
\* sent, and the clock stands at t.
Respond(op, id, body, result, responses, t) ==
  /\ call = NoCall
  /\ result.db.nextWorkout <= MaxWorkouts + 1
  /\ result.db.nextExercise <= MaxExercises + 1
  /\ result.db.nextCompletion <= MaxCompletions + 1
  /\ workouts' = result.db.workouts
  /\ exercises' = result.db.exercises
  /\ nextWorkout' = result.db.nextWorkout
  /\ nextExercise' = result.db.nextExercise
  /\ completions' = result.db.completions
  /\ nextCompletion' = result.db.nextCompletion
  /\ now' = t
  /\ UNCHANGED background
  /\ \E resp \in responses :
       call' = [op |-> op, id |-> id, body |-> body, pre |-> Database,
                status |-> result.status, resp |-> resp]

\* Ids a client can name: every id assigned so far and one never assigned.
WorkoutIds == {cuid(n) : n \in 1..nextWorkout}

ApiPost ==
  \E body \in ApiCreateBodies :
    LET result == PostHandler(Database, body) IN
      Respond("POST", cuid(nextWorkout), body, result,
              PostResponses(result, cuid(nextWorkout)), now)

PutWith(bodies) ==
  \E id \in WorkoutIds : \E body \in bodies :
    LET result == PutHandler(Database, id, body) IN
      Respond("PUT", id, body, result, PutResponses(result, id), now)

ApiPut == PutWith(ApiUpdateBodies(Database))

ApiRename == PutWith(ScalarBodies)

ApiGet ==
  \E id \in WorkoutIds :
    LET result == GetHandler(Database, id) IN
      Respond("GET", id, UNDEF, result, result.responses, now)

ApiList ==
  \E query \in ListQueries :
    LET result == ListHandler(Database, query) IN
      Respond("LIST", UNDEF, query, result, result.responses, now)

ApiDelete ==
  \E id \in WorkoutIds :
    LET result == DeleteHandler(Database, id) IN
      Respond("DELETE", id, UNDEF, result, result.responses, now)

ApiPatch ==
  \E id \in WorkoutIds :
    LET result == PatchHandler(Database, id) IN
      Respond("PATCH", id, UNDEF, result, result.responses, now)

\* The clock does not run backwards: a completion is stamped with the time
\* of the previous one or a later time.
ApiComplete ==
  \E id \in WorkoutIds : \E body \in CompleteBodies : \E t \in {now, now + 1} :
    LET result == CompleteHandler(Database, id, body, t) IN
      Respond("COMPLETE", id, body, result, result.responses,
              IF result.status = 201 THEN t ELSE now)

ApiNext ==
  ApiPost \/ ApiPut \/ ApiGet \/ ApiList \/ ApiDelete \/ ApiPatch \/ Return

SpecApi == Init /\ [][ApiNext]_vars

CompletionsNext ==
  ApiPost \/ ApiRename \/ ApiComplete \/ ApiGet \/ ApiList \/ ApiDelete \/ ApiPatch \/ Return

SpecCompletions == Init /\ [][CompletionsNext]_vars



\* ================================================= unusual field values
\* The fourth machine creates one workout at a time and updates it with the
\* field values at the edges of validation: blank and overlong names, a
\* missing order, and null or empty clearable fields.
MaxFieldWorkouts == 1
MaxNameLength == 100

Blank == Str(<<" ">>)
Empty == Str(<< >>)
LongName == Str([i \in 1..(MaxNameLength + 1) |-> "a"])

FullEntry(name, order) ==
  [name |-> name, reps |-> Num(5), sets |-> Num(3), duration |-> Str(<<"1","m">>),
   notes |-> Str(<<"n">>), order |-> order]

FieldCreateBodies ==
  { [name |-> name, description |-> Str(<<"d">>),
     category |-> Str(<<"C","a","r","d","i","o">>), exercises |-> Arr(list)] :
       name \in {NameA, Blank, LongName},
       list \in { <<FullEntry(NameA, Num(0))>>, <<FullEntry(Blank, Num(0))>>,
                  <<FullEntry(NameA, UNDEF)>>,
                  <<FullEntry(NameA, Num(0)), FullEntry(NameA, UNDEF)>> } }

ClearableFields == {"reps", "sets", "duration", "notes"}

\* One field of an exercise supplied as null or as the empty string, or a
\* blank name.
FieldPatches1 ==
  {[NoFields EXCEPT ![f] = v] : f \in ClearableFields, v \in {NULL, Empty}}
    \cup {[NoFields EXCEPT !.name = Blank]}

NoChange ==
  [name |-> UNDEF, description |-> UNDEF, category |-> UNDEF, exercises |-> UNDEF]

\* Bodies that supply one thing: a description of null or "", a blank name,
\* or one untagged directive for an exercise of the workout.
FieldUpdateBodies(db, id) ==
  {[NoChange EXCEPT !.description = v] : v \in {NULL, Empty}}
    \cup {[NoChange EXCEPT !.name = Blank]}
    \cup {[NoChange EXCEPT !.exercises = Arr(<<Directive(Str(e), p, UNDEF)>>)] :
            e \in ExercisesOf(db, id), p \in FieldPatches1}

FieldPost ==
  /\ nextWorkout <= MaxFieldWorkouts
  /\ \E body \in FieldCreateBodies :
       LET result == PostHandler(Database, body) IN
         Respond("POST", cuid(nextWorkout), body, result,
                 PostResponses(result, cuid(nextWorkout)), now)

FieldPut ==
  \E id \in DOMAIN workouts : \E body \in FieldUpdateBodies(Database, id) :
    LET result == PutHandler(Database, id, body) IN
      Respond("PUT", id, body, result, PutResponses(result, id), now)

FieldsNext == FieldPost \/ FieldPut \/ Return

SpecFields == Init /\ [][FieldsNext]_vars


\* ================================================== api-utils.ts error path
\* Every route handler is try { ... return success } catch (error) { return
\* handleApiError(error) }. The fifth machine runs that wrapper on the errors
\* a handler can throw: a thrown error is [name, code, message], code being
\* UNDEF or a string.
getErrorType(statusCode) ==
  CASE statusCode = 400 -> "Bad Request"
    [] statusCode = 401 -> "Unauthorized"
    [] statusCode = 403 -> "Forbidden"
    [] statusCode = 404 -> "Not Found"
    [] statusCode = 405 -> "Method Not Allowed"
    [] statusCode = 409 -> "Conflict"
    [] statusCode = 422 -> "Unprocessable Entity"
    [] statusCode = 500 -> "Internal Server Error"
    [] OTHER -> "Unknown Error"

createErrorResponse(message, statusCode) ==
  [status |-> statusCode, error |-> getErrorType(statusCode), message |-> message]

Code(digits) == Str(<<"P">> \o digits)
P2002 == Code(<<"2","0","0","2">>)
P2003 == Code(<<"2","0","0","3">>)
P2025 == Code(<<"2","0","2","5">>)
P2034 == Code(<<"2","0","3","4">>)
ECONNREFUSED == Str(<<"E","C","O","N","N","R","E","F","U","S","E","D">>)

\* Variant of handlePrismaError: the foreign-key code is not recognised.
handlePrismaError_NoForeignKey(error) ==
  IF error.code = P2002
    THEN createErrorResponse("A record with this data already exists", 409)
  ELSE IF error.code = P2025 THEN createErrorResponse("Record not found", 404)
  ELSE createErrorResponse("Database operation failed", 500)

handlePrismaError(error) ==
  IF error.code = P2002
    THEN createErrorResponse("A record with this data already exists", 409)
  ELSE IF error.code = P2025 THEN createErrorResponse("Record not found", 404)
  ELSE IF error.code = P2003
    THEN createErrorResponse("Foreign key constraint failed", 400)
  ELSE createErrorResponse("Database operation failed", 500)

handleApiError(error) ==
  IF error.name = "ValidationError" THEN createErrorResponse(error.message, 400)
  ELSE IF Truthy(error.code) /\ Head(error.code.v) = "P" THEN handlePrismaError(error)
  ELSE createErrorResponse("An unexpected error occurred", 500)

\* What the handlers throw: the validators' ValidationError, Prisma's known
\* request errors (code Pnnnn), Prisma's validation error, a TypeError, a
\* system error with a code of its own.
ThrownErrors ==
  { [name |-> "ValidationError", code |-> UNDEF, message |-> m] :
      m \in {"Validation failed", "Invalid JSON in request body", "name is required"} }
    \cup
  { [name |-> "PrismaClientKnownRequestError", code |-> c, message |-> m] :
      c \in {P2002, P2003, P2025, P2034}, m \in {"Invalid invocation", "failed"} }
    \cup
  { [name |-> n, code |-> c, message |-> m] :
      n \in {"PrismaClientValidationError", "TypeError", "Error"},
      c \in {UNDEF, ECONNREFUSED},
      m \in {"Cannot read properties of null", "connect ECONNREFUSED", ""} }

\* The routes and the status of their success response.
SuccessStatus ==
  [ PATCH |-> 200, GET |-> 200, PUT |-> 200, DELETE |-> 204,
    LIST |-> 200, POST |-> 201, COMPLETE |-> 201 ]

Routes == DOMAIN SuccessStatus

SuccessStatuses == {SuccessStatus[r] : r \in Routes}

\* A handler runs to its return statement, returns 404 when it finds no
\* workout of the id in its path, or throws on the way; responses is what it
\* has returned to the caller so far.
Succeed ==
  /\ call = NoCall
  /\ \E route \in Routes :
       call' = [op |-> "returned", route |-> route, error |-> UNDEF,
                responses |-> <<[status |-> SuccessStatus[route]]>>]
  /\ UNCHANGED <<workouts, exercises, nextWorkout, nextExercise,
                 completions, nextCompletion, now, background>>

NotFound ==
  /\ call = NoCall
  /\ \E route \in Routes \ {"LIST", "POST"} :
       call' = [op |-> "not found", route |-> route, error |-> UNDEF,
                responses |-> <<createErrorResponse("Workout with id not found", 404)>>]
  /\ UNCHANGED <<workouts, exercises, nextWorkout, nextExercise,
                 completions, nextCompletion, now, background>>

Throw ==
  /\ call = NoCall
  /\ \E route \in Routes : \E error \in ThrownErrors :
       call' = [op |-> "thrown", route |-> route, error |-> error, responses |-> << >>]
  /\ UNCHANGED <<workouts, exercises, nextWorkout, nextExercise,
                 completions, nextCompletion, now, background>>

Catch ==
  /\ call.op = "thrown"
  /\ call' = [call EXCEPT !.op = "caught",
                          !.responses = Append(@, handleApiError(call.error))]
  /\ UNCHANGED <<workouts, exercises, nextWorkout, nextExercise,
                 completions, nextCompletion, now, background>>

Deliver ==
  /\ call.op \in {"returned", "not found", "caught"}
  /\ call' = NoCall
  /\ UNCHANGED <<workouts, exercises, nextWorkout, nextExercise,
                 completions, nextCompletion, now, background>>

ErrorsNext == Succeed \/ NotFound \/ Throw \/ Catch \/ Deliver

SpecErrors == Init /\ [][ErrorsNext]_vars

\* The failure class of a thrown error and the status the class is given.
FailureClass(error) ==
  CASE error.name = "ValidationError" -> "validation"
    [] error.name # "ValidationError" /\ error.code = P2025 -> "not found"
    [] error.name # "ValidationError" /\ error.code = P2002 -> "unique"
    [] error.name # "ValidationError" /\ error.code = P2003 -> "foreign key"
    [] OTHER -> "other"

ClassStatus(class) ==
  CASE class = "validation" -> 400
    [] class = "not found" -> 404
    [] class = "unique" -> 409
    [] class = "foreign key" -> 400
    [] OTHER -> 500

\* C21: a request that fails gets exactly one response, an error response
\* with the status of its failure class (validation or invalid JSON 400,
\* absent workout or record not found 404, unique constraint 409, foreign key
\* 400, anything else 500) and a body with an error category and a message;
\* a request that does not fail gets exactly one response, a success.
C21_ErrorMapping ==
  /\ call.op \in {"caught", "not found"} =>
       /\ Len(call.responses) = 1
       /\ call.responses[1].status =
            IF call.op = "not found" THEN 404
            ELSE ClassStatus(FailureClass(call.error))
       /\ call.responses[1].status \notin SuccessStatuses
       /\ call.responses[1].error \notin {"", "Unknown Error"}
       /\ call.responses[1].message # ""
  /\ call.op = "returned" =>
       Len(call.responses) = 1 /\ call.responses[1].status \in SuccessStatuses
  /\ call.op = "thrown" => call.responses = << >>

\* A foreign-key violation was answered.
C21_Witness ==
  /\ call.op = "caught"
  /\ call.error.code = P2003
  /\ call.responses[1].status = 400


\* ================================================== interleaved requests
\* The sixth machine lets PUT and PATCH requests overlap. Each of them makes
\* its first storage call (the findUnique that loads the workout) in one
\* step and the rest (the transaction of PUT, the update of PATCH) in a
\* later step; other requests may take their steps in between.
MaxRequests == 3

\* Directives of an overlapping update: set the order of an exercise of the
\* workout, or add an exercise.
InterleavedDirectives(db, id) ==
  {Directive(i, [NoFields EXCEPT !.order = Num(1)], UNDEF) :
     i \in {UNDEF} \cup {Str(e) : e \in ExercisesOf(db, id)}}

InterleavedBodies(db, id) ==
  { [NoChange EXCEPT !.exercises = Arr(list)] :
      list \in SeqsOf(InterleavedDirectives(db, id), 1, MaxDirs) }

\* A step of a request writes its result and leaves its trace in call.
Step(op, id, body, result, read) ==
  /\ call = NoCall
  /\ result.db.nextWorkout <= MaxWorkouts + 1
  /\ result.db.nextExercise <= MaxExercises + 1
  /\ workouts' = result.db.workouts
  /\ exercises' = result.db.exercises
  /\ nextWorkout' = result.db.nextWorkout
  /\ nextExercise' = result.db.nextExercise
  /\ UNCHANGED <<completions, nextCompletion, now, others>>
  /\ call' = [op |-> op, id |-> id, body |-> body, pre |-> Database,
              status |-> result.status, read |-> read]

\* POST /workouts: one transaction.
Create ==
  /\ \E body \in ApiCreateBodies :
       Step("POST", cuid(nextWorkout), body, PostHandler(Database, body), UNDEF)
  /\ UNCHANGED requests

\* PUT, route.ts:187-192: existingWorkout is loaded with its exercises.
BeginPut ==
  /\ call = NoCall
  /\ Len(requests) < MaxRequests
  /\ \E id \in DOMAIN workouts : \E body \in InterleavedBodies(Database, id) :
       requests' = Append(requests,
                          [op |-> "PUT", id |-> id, body |-> body,
                           read |-> ExercisesOf(Database, id), phase |-> "loaded"])
  /\ UNCHANGED <<workouts, exercises, nextWorkout, nextExercise,
                 completions, nextCompletion, now, call, others>>

\* PUT, route.ts:200-287: validation, the transaction and the response, with
\* the exercises loaded earlier.
FinishPut ==
  \E k \in DOMAIN requests :
    /\ requests[k].op = "PUT"
    /\ requests[k].phase = "loaded"
    /\ Step("PUT", requests[k].id, requests[k].body,
            PutLoaded(Database, requests[k].id, requests[k].body, requests[k].read),
            requests[k].read)
    /\ requests' = [requests EXCEPT ![k].phase = "done"]

\* PATCH, route.ts:22-28: id and isFavorite are read.
BeginPatch ==
  /\ call = NoCall
  /\ Len(requests) < MaxRequests
  /\ \E id \in DOMAIN workouts :
       requests' = Append(requests,
                          [op |-> "PATCH", id |-> id, body |-> UNDEF,
                           read |-> workouts[id].isFavorite, phase |-> "loaded"])
  /\ UNCHANGED <<workouts, exercises, nextWorkout, nextExercise,
                 completions, nextCompletion, now, call, others>>

\* prisma.workout.update({ where: { id }, data: { isFavorite: !read } })
PatchUpdate(db, id, read) ==
  IF id \notin DOMAIN db.workouts THEN [db |-> db, status |-> ErrorStatus("P2025")]
  ELSE [db |-> [db EXCEPT !.workouts[id].isFavorite = ~read], status |-> 200]

\* PATCH, route.ts:37-87: the negation of what was read is written.
FinishPatch ==
  \E k \in DOMAIN requests :
    /\ requests[k].op = "PATCH"
    /\ requests[k].phase = "loaded"
    /\ Step("PATCH", requests[k].id, UNDEF,
            PatchUpdate(Database, requests[k].id, requests[k].read),
            requests[k].read)
    /\ requests' = [requests EXCEPT ![k].phase = "done"]

Acknowledge ==
  /\ call # NoCall
  /\ call' = NoCall
  /\ UNCHANGED <<workouts, exercises, nextWorkout, nextExercise,
                 completions, nextCompletion, now, requests, others>>

InterleavedNext ==
  Create \/ BeginPut \/ FinishPut \/ BeginPatch \/ FinishPatch \/ Acknowledge

SpecInterleaved == Init /\ [][InterleavedNext]_vars

\* ===================================================== properties of the API
\* The workouts a successful response carries, in the order it carries them.
ResponseWorkouts ==
  CASE call.op = "LIST" /\ call.status = 200 -> call.resp.data
    [] call.op = "GET" /\ call.status = 200 -> <<call.resp.workout>>
    [] call.op = "POST" /\ call.status = 201 -> <<call.resp>>
    [] call.op \in {"PUT", "PATCH"} /\ call.status = 200 -> <<call.resp>>
    [] OTHER -> << >>

Ascending(list) ==
  \A i, j \in DOMAIN list : i < j => list[i].order.v <= list[j].order.v

\* C11: in every response that carries a workout (fetch, list, create, update,
\* favorite toggle) the exercises are sorted by non-decreasing order, the
\* order values being the persisted ones of exactly the workout's exercises.
C11_Ordering ==
  \A k \in DOMAIN ResponseWorkouts :
    LET w == ResponseWorkouts[k] IN
      /\ Ascending(w.exercises)
      /\ {x.id : x \in {w.exercises[i] : i \in DOMAIN w.exercises}} = ExercisesOf(Database, w.id)
      /\ Len(w.exercises) = Cardinality(ExercisesOf(Database, w.id))
      /\ \A i \in DOMAIN w.exercises :
           w.exercises[i].order = exercises[w.exercises[i].id].order

\* A list response carries a workout whose later-created exercise comes first.
C11_Witness ==
  /\ call.op = "LIST"
  /\ \E k \in DOMAIN ResponseWorkouts :
       LET list == ResponseWorkouts[k].exercises IN
         /\ Len(list) >= 2
         /\ Len(list[1].id) > Len(list[2].id)
         /\ list[1].order.v < list[2].order.v


\* C12: DELETE of an existing workout answers 204 and removes the workout
\* with all of its exercises and all of its completions, whether or not it
\* has completions, and removes no row of any other workout.
C12_DeleteCascades ==
  (call.op = "DELETE" /\ call.id \in DOMAIN call.pre.workouts) =>
    /\ call.status = 204
    /\ workouts = Remove(call.pre.workouts, {call.id})
    /\ exercises = Remove(call.pre.exercises, ExercisesOf(call.pre, call.id))
    /\ completions = Remove(call.pre.completions, CompletionsOf(call.pre, call.id))


\* The request just answered carried a payload its validator rejects.
FailsValidation ==
  \/ call.op = "POST" /\ ~validateCreateWorkout(call.body).ok
  \/ call.op = "PUT" /\ ~validateUpdateWorkout(call.body).ok
  \/ call.op = "COMPLETE" /\ ~validateCompleteWorkout(call.body).ok

\* The request names a workout in its path and no workout has that id.
TargetMissing ==
  call.op \in {"PUT", "COMPLETE"} /\ call.id \notin DOMAIN call.pre.workouts

\* C13 as stated: a create, update or complete request whose payload fails
\* validation is answered 400 and leaves workouts, exercises and completions
\* as they were.
C13_AsStated ==
  FailsValidation => call.status = 400 /\ Database = call.pre

\* C13 amended: such a request leaves workouts, exercises and completions as
\* they were, and is answered 400, except that an update or complete request
\* for an id no workout has is answered 404 before its payload is read.
C13_ValidationFailure ==
  FailsValidation =>
    /\ Database = call.pre
    /\ call.status = IF TargetMissing THEN 404 ELSE 400

\* An update of an existing workout with exercises was rejected.
C13_Witness ==
  /\ call.op = "PUT"
  /\ FailsValidation
  /\ ~TargetMissing
  /\ ExercisesOf(call.pre, call.id) # {}
  /\ call.status = 400


\* The value a request supplies for a clearable field asks to clear it.
Clears(value) == IsNull(value) \/ (IsStr(value) /\ value.v = << >>)

\* C14: in an update, a clearable field (the workout's description, an
\* exercise's reps, sets, duration, notes) that is absent is left untouched,
\* and one supplied as null or as the empty string is accepted and persisted
\* as null.
C14_ClearableFields ==
  (call.op = "PUT" /\ call.id \in DOMAIN call.pre.workouts) =>
    /\ call.status = 200
    /\ IF IsUndef(call.body.description)
       THEN workouts[call.id].description = call.pre.workouts[call.id].description
       ELSE Clears(call.body.description) => IsNull(workouts[call.id].description)
    /\ IsArr(call.body.exercises) =>
         \A i \in DOMAIN call.body.exercises.v :
           LET d == call.body.exercises.v[i] IN
             \A f \in ClearableFields :
               IF IsUndef(d[f])
               THEN exercises[d.id.v][f] = call.pre.exercises[d.id.v][f]
               ELSE Clears(d[f]) => IsNull(exercises[d.id.v][f])

\* The create body with every omitted order filled in with the entry's index.
WithIndexOrders(body) ==
  [body EXCEPT !.exercises.v =
     [i \in DOMAIN @ |-> IF IsUndef(@[i].order) THEN [@[i] EXCEPT !.order = Num(i - 1)]
                         ELSE @[i]]]

\* C15: a create request that is valid but for exercise entries that omit
\* order is accepted, and each such entry is persisted with order equal to its
\* index in the submitted array.
C15_OrderDefaultsToIndex ==
  ( /\ call.op = "POST"
    /\ \E i \in DOMAIN call.body.exercises.v : IsUndef(call.body.exercises.v[i].order)
    /\ validateCreateWorkout(WithIndexOrders(call.body)).ok ) =>
      /\ call.status = 201
      /\ \A i \in DOMAIN call.body.exercises.v :
           IsUndef(call.body.exercises.v[i].order) =>
             LET e == cuid(call.pre.nextExercise + i - 1) IN
               e \in DOMAIN exercises /\ exercises[e].order = Num(i - 1)

\* C16: every persisted workout name and exercise name has between 1 and 100
\* characters, whatever strings the create and update requests carried.
C16_NameLengths ==
  /\ \A w \in DOMAIN workouts :
       Len(workouts[w].name.v) >= 1 /\ Len(workouts[w].name.v) <= MaxNameLength
  /\ \A e \in DOMAIN exercises :
       Len(exercises[e].name.v) >= 1 /\ Len(exercises[e].name.v) <= MaxNameLength


\* C17: a favorite toggle answers with the negation of the stored isFavorite
\* and stores it, changes no other field, no exercise and no completion, and
\* a second toggle that follows it restores the database the first one found.
C17_ToggleInverse ==
  (call.op = "PATCH" /\ call.status = 200) =>
    /\ call.resp.isFavorite = ~call.pre.workouts[call.id].isFavorite
    /\ workouts = [call.pre.workouts EXCEPT ![call.id].isFavorite = call.resp.isFavorite]
    /\ exercises = call.pre.exercises
    /\ completions = call.pre.completions
    /\ LET second == PatchHandler(Database, call.id) IN
         /\ second.status = 200
         /\ second.db = call.pre
         /\ \A r \in second.responses :
              r.isFavorite = call.pre.workouts[call.id].isFavorite

\* A favorite workout with exercises and a completion was toggled.
C17_Witness ==
  /\ call.op = "PATCH"
  /\ call.status = 200
  /\ call.pre.workouts[call.id].isFavorite
  /\ ExercisesOf(call.pre, call.id) # {}
  /\ CompletionsOf(call.pre, call.id) # {}


\* C18: a completion request with a valid payload for an existing workout is
\* answered 201 with notes and duration null where the payload omitted them;
\* a fetch of the workout that follows reports one more completion than
\* before and the new completion's completedAt as lastCompleted; every
\* completion that existed is still there, unmodified.
C18_Completion ==
  /\ ( /\ call.op = "COMPLETE"
       /\ call.id \in DOMAIN call.pre.workouts
       /\ validateCompleteWorkout(call.body).ok ) => call.status = 201
  /\ (call.op = "COMPLETE" /\ call.status = 201) =>
       LET c == call.resp.completion IN
         /\ IsUndef(call.body.notes) => IsNull(c.notes)
         /\ IsUndef(call.body.duration) => IsNull(c.duration)
         /\ \A g \in GetResponses(Database, call.id) :
              /\ g.workout.completionCount
                   = Cardinality(CompletionsOf(call.pre, call.id)) + 1
              /\ g.workout.lastCompleted = c.completedAt
              /\ Len(g.completions) = g.workout.completionCount
              /\ g.completions[1].completedAt = c.completedAt
         /\ \A k \in DOMAIN call.pre.completions :
              k \in DOMAIN completions /\ completions[k] = call.pre.completions[k]

\* A workout completed earlier was completed again, later, with an empty
\* payload.
C18_Witness ==
  /\ call.op = "COMPLETE"
  /\ call.status = 201
  /\ IsUndef(call.body.notes) /\ IsUndef(call.body.duration)
  /\ \E k \in CompletionsOf(call.pre, call.id) :
       call.pre.completions[k].completedAt < call.resp.completion.completedAt.v


\* The workout w of a response is the one the create request just answered
\* submitted: as many exercises as submitted, each submitted entry's name
\* (sanitized) and order on one of them, in ascending order, under distinct
\* ids the server assigned, and the counters of a new workout.
RoundTrip(w) ==
  LET submitted == call.body.exercises.v
      n == Len(submitted)
  IN /\ n >= 1
     /\ Len(w.exercises) = n
     /\ Ascending(w.exercises)
     /\ \A i, j \in DOMAIN w.exercises : w.exercises[i].id = w.exercises[j].id => i = j
     /\ \A i \in DOMAIN w.exercises : w.exercises[i].id \notin DOMAIN call.pre.exercises
     /\ \E p \in Orderings(1..n) :
          \A i \in 1..n :
            /\ w.exercises[i].name = Str(sanitizeString(submitted[p[i]].name.v))
            /\ w.exercises[i].order = submitted[p[i]].order
     /\ w.exerciseCount = n
     /\ w.completionCount = 0
     /\ IsNull(w.lastCompleted)
     /\ w.isFavorite = FALSE

C20_PartialUpdateFrame ==
  call.op = "PUT" =>
    /\ IsUndef(call.body.exercises) => exercises = call.pre.exercises
    /\ ( /\ IsUndef(call.body.name)
         /\ IsUndef(call.body.description)
         /\ IsUndef(call.body.category) ) => workouts = call.pre.workouts
    /\ call.id \notin DOMAIN call.pre.workouts =>
         call.status = 404 /\ Database = call.pre

\* An update that supplied only exercises changed the exercises of a
\* favorite workout.
C20_Witness ==
  /\ call.op = "PUT"
  /\ call.status = 200
  /\ IsArr(call.body.exercises)
  /\ IsUndef(call.body.name)
  /\ call.pre.workouts[call.id].isFavorite
  /\ IsStr(call.pre.workouts[call.id].description)
  /\ exercises # call.pre.exercises


\* C22: an update of workout W, whatever its directives, leaves every
\* exercise owned by another workout in place and unmodified, and gives no
\* other workout a new exercise.
C22_WorkoutIsolation ==
  call.op = "PUT" =>
    /\ \A e \in DOMAIN call.pre.exercises :
         call.pre.exercises[e].workoutId # call.id =>
           e \in DOMAIN exercises /\ exercises[e] = call.pre.exercises[e]
    /\ \A e \in DOMAIN exercises \ DOMAIN call.pre.exercises :
         exercises[e].workoutId = call.id


\* C23: when an update in replacement mode succeeds, the workout holds only
\* exercises this update updated in place (it loaded them and a directive
\* carries their id) or created, even if another request committed an
\* exercise into the workout after this update loaded the workout.
C23_ReplacementUnderInterleaving ==
  (PutOk /\ ReplacementList) =>
    PostExercises \subseteq ({e \in call.read : Referenced(e)} \cup NewExercises)

\* The toggles of workout w that have run to their end, and those that have
\* read isFavorite and not yet written.
TogglesDone(w) ==
  {k \in DOMAIN requests :
     requests[k].op = "PATCH" /\ requests[k].id = w /\ requests[k].phase = "done"}

TogglesPending(w) ==
  {k \in DOMAIN requests :
     requests[k].op = "PATCH" /\ requests[k].id = w /\ requests[k].phase = "loaded"}

\* C24: once n toggles of a workout have returned 200 and none is under way,
\* isFavorite is the value the workout was created with (false) when n is
\* even and its negation when n is odd, however the toggles interleaved.
C24_NoLostToggle ==
  \A w \in DOMAIN workouts :
    TogglesPending(w) = {} =>
      workouts[w].isFavorite = (Cardinality(TogglesDone(w)) % 2 = 1)


(***************************************************************************)
(* C25: every persisted workout owns at least one exercise: no sequence of *)
(* successful creations and PUT requests (delete directives, replacement   *)
(* lists, empty arrays) leaves a workout with no exercise.                 *)
(***************************************************************************)
C25_WorkoutOwnsExercise ==
  \A w \in DOMAIN workouts : ExercisesOf(Database, w) # {}

\* ======================================================= the progress page
\* The clock counts DayMs ticks a day (24 * 60 * 60 * 1000 in the source);
\* days of other lengths (daylight saving) are left out.
DayMs == 2
MaxStreakDays == 4
MaxRecentCompletions == 3

\* new Date(d.getFullYear(), d.getMonth(), d.getDate()).getTime()
StartOfDay(t) == t - (t % DayMs)

Max(S) == CHOOSE x \in S : \A y \in S : y <= x

\* [...S].sort((a, b) => b - a)
RECURSIVE SortDescending(_)
SortDescending(S) ==
  IF S = {} THEN << >> ELSE <<Max(S)>> \o SortDescending(S \ {Max(S)})

\* The for loop of calculateStreak from index i (0-based) on.
RECURSIVE StreakFrom(_, _, _)
StreakFrom(uniqueDates, todayTime, i) ==
  IF i >= Len(uniqueDates) THEN 0
  ELSE LET expectedDate == todayTime - (i * DayMs) IN
    IF uniqueDates[i + 1] = expectedDate
    THEN 1 + StreakFrom(uniqueDates, todayTime, i + 1)
    ELSE IF i = 0 /\ uniqueDates[i + 1] = todayTime - DayMs
    THEN 1 + StreakFrom(uniqueDates, todayTime, i + 1)
    ELSE 0

\* today is the clock when the page is rendered.
calculateStreak(completedAts, today) ==
  IF Len(completedAts) = 0 THEN 0
  ELSE LET dates == {StartOfDay(completedAts[k]) : k \in DOMAIN completedAts}
           uniqueDates == SortDescending(dates)
       IN StreakFrom(uniqueDates, StartOfDay(today), 0)

\* The page is rendered on the last day of the period, at any time of day;
\* the completions selected are those of the period up to that time
\* (orderBy: { completedAt: 'desc' }).
RenderTimes == ((MaxStreakDays - 1) * DayMs) .. (MaxStreakDays * DayMs - 1)

RecentCompletions(today) ==
  { SortDescending(S) : S \in {T \in SUBSET (0..today) :
                                 Cardinality(T) <= MaxRecentCompletions} }

InitProgress ==
  /\ workouts = << >>
  /\ exercises = << >>
  /\ nextWorkout = 1
  /\ nextExercise = 1
  /\ completions = << >>
  /\ nextCompletion = 1
  /\ call = NoCall
  /\ requests = << >>
  /\ rateLimit = UNDEF
  /\ requestCounts = << >>
  /\ grants = {}
  /\ state = [workouts |-> << >>, loading |-> TRUE, error |-> NULL, pagination |-> NULL]
  /\ params = InitialParams
  /\ mutations = [loading |-> FALSE, error |-> NULL]
  /\ sent = << >>
  /\ issued = 0
  /\ toasts = << >>
  /\ now \in RenderTimes
  /\ recentCompletions \in RecentCompletions(now)

\* ProgressPage: currentStreak = calculateStreak(stats.recentCompletions)
ProgressPage ==
  /\ call = NoCall
  /\ call' = [op |-> "ProgressPage",
              currentStreak |-> calculateStreak(recentCompletions, now)]
  /\ UNCHANGED <<database, now, background>>

ProgressNext == ProgressPage \/ Return

SpecProgress == InitProgress /\ [][ProgressNext]_vars

\* The days that have a completion, and the run of consecutive days that
\* ends at day d.
CompletionDays == {StartOfDay(recentCompletions[k]) : k \in DOMAIN recentCompletions}

RECURSIVE RunEndingAt(_)
RunEndingAt(d) ==
  IF d \notin CompletionDays THEN 0 ELSE 1 + RunEndingAt(d - DayMs)

Today == StartOfDay(now)

(***************************************************************************)
(* C30: calculateStreak is the number of consecutive calendar days with a  *)
(* completion, counted backwards from today if today has a completion and  *)
(* from yesterday otherwise (0 when neither day has one).                  *)
(***************************************************************************)
C30_StreakIsRun ==
  call.op = "ProgressPage" =>
    call.currentStreak =
      IF Today \in CompletionDays THEN RunEndingAt(Today)
      ELSE RunEndingAt(Today - DayMs)

\* ========================================================= the rate limiter
MaxRateLimit == 2
MaxWindowMs == 2
MaxTime == 4

\* getClientIP(request)
ClientIPs == {"a", "b"}

\* for (const [key, data] of requestCounts.entries())
\*   if (data.resetTime < now) requestCounts.delete(key)
CleanUp(counts, t) ==
  [k \in {j \in DOMAIN counts : ~(counts[j].resetTime < t)} |-> counts[k]]

Set(counts, key, value) ==
  [k \in DOMAIN counts \cup {key} |-> IF k = key THEN value ELSE counts[k]]

\* A clean-up that empties the map.
checkRateLimit_ClearsAll(counts, identifier, limit, windowMs, t) ==
  LET resetTime == t + windowMs IN
    [requestCounts |-> Set(<< >>, identifier, [count |-> 1, resetTime |-> resetTime]),
     allowed |-> TRUE, remaining |-> limit - 1, resetTime |-> resetTime]

\* checkRateLimit(identifier, limit, windowMs) called when Date.now() is t,
\* with the map it leaves behind.
checkRateLimit(counts, identifier, limit, windowMs, t) ==
  LET cleaned == CleanUp(counts, t) IN
    IF identifier \notin DOMAIN cleaned \/ cleaned[identifier].resetTime < t
    THEN LET resetTime == t + windowMs IN
      [requestCounts |-> Set(cleaned, identifier, [count |-> 1, resetTime |-> resetTime]),
       allowed |-> TRUE, remaining |-> limit - 1, resetTime |-> resetTime]
    ELSE LET existing == cleaned[identifier] IN
      IF existing.count >= limit
      THEN [requestCounts |-> cleaned,
            allowed |-> FALSE, remaining |-> 0, resetTime |-> existing.resetTime]
      ELSE [requestCounts |-> [cleaned EXCEPT ![identifier].count = existing.count + 1],
            allowed |-> TRUE, remaining |-> limit - (existing.count + 1),
            resetTime |-> existing.resetTime]

\* The allowed calls of the window of identifier that ends at resetTime.
GrantsOf(identifier, resetTime) ==
  {g \in grants : g.identifier = identifier /\ g.resetTime = resetTime}

\* withApiMiddleware with a rateLimit option: a request of clientIP arrives.
\* A denied request is answered 429; an allowed one is handed to the handler.
withApiMiddleware(clientIP) ==
  /\ call = NoCall
  /\ LET rateLimitResult == checkRateLimit(requestCounts, clientIP,
                                           rateLimit.limit, rateLimit.windowMs, now)
     IN /\ requestCounts' = rateLimitResult.requestCounts
        /\ grants' = IF rateLimitResult.allowed
                     THEN grants \cup
                            {[identifier |-> clientIP,
                              resetTime |-> rateLimitResult.resetTime,
                              nth |-> Cardinality(GrantsOf(clientIP,
                                                  rateLimitResult.resetTime)) + 1]}
                     ELSE grants
        /\ call' = [op |-> "checkRateLimit", identifier |-> clientIP, t |-> now,
                    pre |-> requestCounts, result |-> rateLimitResult,
                    status |-> IF rateLimitResult.allowed THEN 200 ELSE 429]
  /\ UNCHANGED <<database, now, requests, rateLimit, recentCompletions, client>>

\* The answer is sent.
Answer ==
  /\ call # NoCall
  /\ call' = NoCall
  /\ UNCHANGED <<database, now, background>>

\* Date.now() advances.
Tick ==
  /\ now < MaxTime
  /\ now' = now + 1
  /\ UNCHANGED <<database, call, background>>

InitRateLimit ==
  /\ workouts = << >>
  /\ exercises = << >>
  /\ nextWorkout = 1
  /\ nextExercise = 1
  /\ completions = << >>
  /\ nextCompletion = 1
  /\ now = 0
  /\ call = NoCall
  /\ requests = << >>
  /\ rateLimit \in [limit : 0..MaxRateLimit, windowMs : 1..MaxWindowMs]
  /\ requestCounts = << >>
  /\ grants = {}
  /\ recentCompletions = << >>
  /\ state = [workouts |-> << >>, loading |-> TRUE, error |-> NULL, pagination |-> NULL]
  /\ params = InitialParams
  /\ mutations = [loading |-> FALSE, error |-> NULL]
  /\ sent = << >>
  /\ issued = 0
  /\ toasts = << >>

RateLimitNext ==
  (\E clientIP \in ClientIPs : withApiMiddleware(clientIP)) \/ Answer \/ Tick

SpecRateLimit == InitRateLimit /\ [][RateLimitNext]_vars

\* Time advances, every request is answered, and every client keeps sending
\* requests (a client answered 429 retries).
FairRateLimit ==
  /\ SpecRateLimit
  /\ WF_vars(Tick)
  /\ WF_vars(Answer)
  /\ \A clientIP \in ClientIPs : SF_vars(withApiMiddleware(clientIP))

IsCheck == call.op = "checkRateLimit"

(***************************************************************************)
(* C26: within one window of an identifier at most limit calls are         *)
(* allowed, and every remaining value returned is in 0..limit.             *)
(***************************************************************************)
C26_RateLimitBound ==
  /\ \A g \in grants : g.nth <= rateLimit.limit
  /\ IsCheck => call.result.remaining \in 0..rateLimit.limit

\* The call was made strictly after the resetTime the identifier had.
AfterReset ==
  /\ IsCheck
  /\ call.identifier \in DOMAIN call.pre
  /\ call.pre[call.identifier].resetTime < call.t

OpensWindow ==
  /\ call.result.allowed
  /\ call.result.requestCounts[call.identifier] =
       [count |-> 1, resetTime |-> call.t + rateLimit.windowMs]

DeniedFrame ==
  (IsCheck /\ ~call.result.allowed) =>
    /\ call.identifier \in DOMAIN call.pre
    /\ call.result.requestCounts[call.identifier] = call.pre[call.identifier]

OthersFrame ==
  IsCheck =>
    \A other \in DOMAIN call.pre \ {call.identifier} :
      ~(call.pre[other].resetTime < call.t) =>
        /\ other \in DOMAIN call.result.requestCounts
        /\ call.result.requestCounts[other] = call.pre[other]

\* The identifier was denied in a window that ends before the clock stops.
Denied(identifier) ==
  /\ IsCheck
  /\ call.identifier = identifier
  /\ ~call.result.allowed
  /\ call.result.resetTime < MaxTime

Allowed(identifier) ==
  IsCheck /\ call.identifier = identifier /\ call.result.allowed

MaxFetches == 3
MaxMutations == 2

\* `HTTP ${response.status}: ${response.statusText}`
HTTP500 == Str("HTTP 500: Internal Server Error")

\* What GET /workouts may answer: the list depends on the query and on what
\* the database holds when the request is served.
ListData(queryParams) ==
  IF IsUndef(queryParams.search) THEN {<<"w1", "w2">>, <<"w2">>}
  ELSE {<<"w1">>}

getWorkoutsResponses(queryParams) ==
  {[ok |-> TRUE, data |-> d,
    pagination |-> [page |-> 1, limit |-> 10, total |-> Len(d), totalPages |-> 1]] :
     d \in ListData(queryParams)}
  \cup {[ok |-> FALSE, message |-> HTTP500]}

MutationResponses ==
  {[ok |-> TRUE, data |-> "w1"], [ok |-> FALSE, message |-> HTTP500]}

\* updateParams(newParams): the search box is filled or emptied.
ParamChanges == {UNDEF, Str(<<"x">>)}

\* fetchApi: a response that is not ok is thrown as an Error.
fetchApi(response) ==
  IF ~response.ok THEN [threw |-> TRUE, error |-> response.message]
  ELSE [threw |-> FALSE, value |-> response.data]

\* toggleFavorite and deleteWorkout of useWorkoutMutations: the error is
\* caught, kept in the error cell, and null (false) is returned.
Mutation(response) ==
  LET result == fetchApi(response) IN
    IF result.threw THEN [threw |-> FALSE, value |-> NULL, error |-> result.error]
    ELSE [threw |-> FALSE, value |-> result.value, error |-> NULL]

SuccessMessage(kind) ==
  IF kind = "toggleFavorite" THEN "Favorite updated!"
  ELSE "Workout deleted successfully!"

FailureMessage(kind) ==
  IF kind = "toggleFavorite" THEN "Failed to update favorite"
  ELSE "Failed to delete workout"

ListRequest(queryParams) ==
  [kind |-> "getWorkouts", from |-> "useWorkouts", params |-> queryParams,
   response |-> UNDEF]

IsList(k) == sent[k].kind = "getWorkouts"

Unanswered(k) == sent[k].response = UNDEF

\* What the browser leaves alone.
server == <<database, now, call, requests, limiter, recentCompletions>>

Lists == {k \in DOMAIN sent : IsList(k)}

Mutations == {k \in DOMAIN sent : ~IsList(k)}

RECURSIVE Times(_, _)
Times(request, n) == IF n = 0 THEN << >> ELSE <<request>> \o Times(request, n - 1)

\* fetchWorkouts(queryParams), n times: loading is set, the error is
\* cleared and the request is sent.
Fetches(queryParams, n) ==
  /\ issued + n <= MaxFetches
  /\ issued' = issued + n
  /\ state' = [state EXCEPT !.loading = TRUE, !.error = NULL]
  /\ sent' = sent \o Times(ListRequest(queryParams), n)

\* useEffect(() => { fetchWorkouts() }, [fetchWorkouts]) on mount.
Mount ==
  /\ issued = 0
  /\ Fetches(params, 1)
  /\ UNCHANGED <<params, mutations, toasts, server>>

\* refresh()
Refresh ==
  /\ issued > 0
  /\ Fetches(params, 1)
  /\ UNCHANGED <<params, mutations, toasts, server>>

\* updateParams(newParams): fetchWorkouts(updatedParams) is called, and
\* setParams gives fetchWorkouts a new identity, so the effect calls it again.
UpdateParams ==
  /\ issued > 0
  /\ \E search \in ParamChanges :
       LET updatedParams == [params EXCEPT !.search = search] IN
         /\ params' = updatedParams
         /\ Fetches(updatedParams, 2)
  /\ UNCHANGED <<mutations, toasts, server>>

\* A list request is answered.
AnswerList ==
  \E k \in Lists : \E response \in getWorkoutsResponses(sent[k].params) :
    /\ Unanswered(k)
    /\ sent' = [sent EXCEPT ![k].response = response]
    /\ state' = IF ~fetchApi(response).threw
                THEN [workouts |-> response.data, loading |-> FALSE,
                      error |-> NULL, pagination |-> response.pagination]
                ELSE [state EXCEPT !.loading = FALSE,
                                   !.error = fetchApi(response).error]
    /\ UNCHANGED <<params, mutations, issued, toasts, server>>

\* A page calls a mutation of the hook: setLoading(true), setError(null).
Mutate(kind, page) ==
  /\ issued > 0
  /\ Cardinality(Mutations) < MaxMutations
  /\ mutations' = [loading |-> TRUE, error |-> NULL]
  /\ sent' = Append(sent, [kind |-> kind, from |-> page, params |-> "w1",
                           response |-> UNDEF])
  /\ UNCHANGED <<state, params, issued, toasts, server>>

\* handleFavoriteToggle of the workouts page and of the home page.
handleFavoriteToggle == \E page \in {"workouts", "home"} : Mutate("toggleFavorite", page)

\* handleDeleteWorkout of the workouts page, once confirm() is accepted.
handleDeleteWorkout == Mutate("deleteWorkout", "workouts")

\* The mutation is answered and the handler of the page goes on: inside its
\* try when the mutation returned, in its catch when it threw.
AnswerMutation ==
  \E k \in Mutations : \E response \in MutationResponses :
    /\ Unanswered(k)
    /\ LET outcome == Mutation(response)
           answered == [sent EXCEPT ![k].response = response]
           toast(type, message) ==
             Append(toasts, [type |-> type, message |-> message,
                             kind |-> sent[k].kind, response |-> response])
       IN /\ mutations' = [loading |-> FALSE, error |-> outcome.error]
          /\ IF outcome.threw
             THEN /\ toasts' = toast("error", FailureMessage(sent[k].kind))
                  /\ sent' = answered
                  /\ UNCHANGED <<state, issued>>
             ELSE /\ toasts' = toast("success", SuccessMessage(sent[k].kind))
                  /\ IF sent[k].from = "workouts" /\ issued < MaxFetches
                     THEN /\ issued' = issued + 1
                          /\ state' = [state EXCEPT !.loading = TRUE, !.error = NULL]
                          /\ sent' = Append(answered, ListRequest(params))
                     ELSE /\ sent' = answered
                          /\ UNCHANGED <<state, issued>>
    /\ UNCHANGED <<params, server>>

ClientNext ==
  \/ Mount \/ Refresh \/ UpdateParams \/ AnswerList
  \/ handleFavoriteToggle \/ handleDeleteWorkout \/ AnswerMutation

SpecClient == Init /\ [][ClientNext]_vars

(***************************************************************************)
(* C28: a favorite-toggle or delete request that fails is reported with    *)
(* the failure notification and not with the success notification; the     *)
(* success notification is shown only for a request that succeeded.        *)
(***************************************************************************)
C28_FailureReported ==
  \A k \in DOMAIN toasts :
    /\ ~toasts[k].response.ok =>
         /\ toasts[k].type = "error"
         /\ toasts[k].message = FailureMessage(toasts[k].kind)
    /\ toasts[k].message = SuccessMessage(toasts[k].kind) => toasts[k].response.ok

\* Every list request has been answered; the last one sent.
AllAnswered == Lists # {} /\ \A k \in Lists : ~Unanswered(k)

Latest == sent[Max(Lists)].response

(***************************************************************************)
(* C29: once every list request is answered, in whatever order, the hook   *)
(* holds the result of the request sent last: its workouts and pagination  *)
(* with no error, or its error; and loading is false.                      *)
(***************************************************************************)
C29_LatestParamsWins ==
  AllAnswered =>
    /\ ~state.loading
    /\ IF Latest.ok
       THEN /\ state.workouts = Latest.data
            /\ state.pagination = Latest.pagination
            /\ state.error = NULL
       ELSE state.error = Latest.message
====
